---- MODULE Spec2Model ----
(***************************************************************************)
(* Quota ledger of the resume tailoring service.                           *)
(*                                                                         *)
(* The persisted state is the Firestore collection "users" (one document   *)
(* per user id).  Every exported quota operation is modelled as a call     *)
(* that runs in one of NumCalls call slots; a call advances in the steps   *)
(* at which the source awaits storage, so that calls interleave exactly    *)
(* where the running program lets them interleave.  The wall clock is the  *)
(* variable now; a UTC calendar day lasts TicksPerDay ticks.               *)
(***************************************************************************)
EXTENDS Integers, Sequences, FiniteSets, TLC

\* ---------------------------------------------------------------- bounds
NumUsers == 1
NumCalls == 3
TicksPerDay == 2
MaxTime == 2
NumAllCalls == 2

Users == 1 .. NumUsers
Calls == 1 .. NumCalls

\* A field that the stored document does not have (undefined in the source).
None == -1

\* The user id of a request body that carries no userId.
NoUser == 0

DailyLimitReason == "You have reached your daily limit of 1 conversion. Please try again tomorrow."

VARIABLES
    now,        \* wall clock, in ticks
    db,         \* users collection: user id -> document
    pc,         \* per call: "idle", "begun", "read", "writing", "done"
    op,         \* per call: the operation invoked
    user,       \* per call: the userId argument
    action,     \* per call: the action field of a rate-limit request body
    today,      \* per call: the date the call read before its storage access, or None
    snap,       \* per call: the document the call last read
    bodyTime,   \* per call: clock value when the call computed its writes
    result,     \* per call: the value returned
    endDay,     \* per ledger call: the UTC day on which it returned, or None
    after,      \* per ledger call: the ledger calls that had returned when it was invoked
    env,        \* the credentials the server process is configured with
    tailor,     \* per call: the locals of a request to the tailor endpoint
    page        \* the state of the Home component in the browser

vars == <<now, db, pc, op, user, action, today, snap, bodyTime, result, endDay, after,
          env, tailor, page>>

\* ------------------------------------------------------------ documents

\* getTodayUTC: the UTC calendar date of a clock value.
getTodayUTC(t) == t \div TicksPerDay

\* A user id that has no document.  ver counts the writes of a document (its
\* update time in the store).
AbsentDoc ==
    [exists |-> FALSE, isSpecial |-> FALSE, lastConversionDate |-> None,
     conversionsToday |-> None, lastConversion |-> None, updatedAt |-> None,
     ver |-> 0]

\* The document the admin instructions create: only isSpecial: true.
SpecialDoc == [AbsentDoc EXCEPT !.exists = TRUE, !.isSpecial = TRUE]

\* Number(userData?.conversionsToday ?? 0)
ConversionsToday(doc) ==
    IF doc.conversionsToday = None THEN 0 ELSE doc.conversionsToday

\* (userData?.lastConversionDate as string | undefined) ?? null
LastConversionDate(doc) == doc.lastConversionDate

\* update(ref, {conversionsToday: n, lastConversion: t})
UpdateDoc(doc, n, t) ==
    [doc EXCEPT !.conversionsToday = n, !.lastConversion = t, !.ver = @ + 1]

\* Faulty variant: the new day continues the old count instead of starting at 1.
SetMergeDocIncrements(doc, d, t) ==
    [doc EXCEPT !.exists = TRUE, !.lastConversionDate = d,
                !.conversionsToday = ConversionsToday(doc) + 1,
                !.lastConversion = t, !.updatedAt = t, !.ver = @ + 1]

\* set(ref, {lastConversionDate: d, conversionsToday: 1, lastConversion: t,
\*           updatedAt: t}, {merge: true})
SetMergeDoc(doc, d, t) ==
    [doc EXCEPT !.exists = TRUE, !.lastConversionDate = d,
                !.conversionsToday = 1, !.lastConversion = t,
                !.updatedAt = t, !.ver = @ + 1]

\* -------------------------------------------------------------- results

NoResult == [kind |-> "none"]
VoidResult == [kind |-> "void"]

Limit(a, r, why) == [kind |-> "limit", allowed |-> a, remaining |-> r, reason |-> why]

Granted(r) == r.kind = "limit" /\ r.allowed
Denied(r) == r.kind = "limit" /\ ~r.allowed

\* ------------------------------------------- checkAndReserveConversion

\* Faulty variant: the exemption is never recognised.
IsSpecialNever(doc) == FALSE

\* userDoc.exists and userData?.isSpecial === true
IsSpecial(doc) == doc.exists /\ doc.isSpecial

\* Faulty variant: > instead of >=.
SlotUsedOffByOne(doc) == ConversionsToday(doc) > 1

\* The daily slot is used up: conversionsToday >= 1.
SlotUsed(doc) == ConversionsToday(doc) >= 1

\* Faulty variant: the deny branch updates the timestamp of the record.
ReserveBodyDenyTouches(doc, d, t) ==
    IF IsSpecial(doc)
    THEN [res |-> Limit(TRUE, -1, ""), doc |-> doc]
    ELSE IF LastConversionDate(doc) = d
         THEN IF SlotUsed(doc)
              THEN [res |-> Limit(FALSE, 0, DailyLimitReason),
                    doc |-> UpdateDoc(doc, ConversionsToday(doc), t)]
              ELSE [res |-> Limit(TRUE, 0, ""),
                    doc |-> UpdateDoc(doc, ConversionsToday(doc) + 1, t)]
         ELSE [res |-> Limit(TRUE, 0, ""), doc |-> SetMergeDoc(doc, d, t)]

\* The transaction body: from the document read, the date the call read
\* before the transaction and the clock at the time the body runs, the value
\* returned and the document the transaction writes (doc itself: no write).
ReserveBody(doc, d, t) ==
    IF IsSpecial(doc)
    THEN [res |-> Limit(TRUE, -1, ""), doc |-> doc]
    ELSE IF LastConversionDate(doc) = d
         THEN IF SlotUsed(doc)
              THEN [res |-> Limit(FALSE, 0, DailyLimitReason), doc |-> doc]
              ELSE [res |-> Limit(TRUE, 0, ""),
                    doc |-> UpdateDoc(doc, ConversionsToday(doc) + 1, t)]
         ELSE [res |-> Limit(TRUE, 0, ""), doc |-> SetMergeDoc(doc, d, t)]

\* --------------------------------------------------------------- errors

\* An error value: where it was raised, the words of its message in lower
\* case (both patterns below ignore case) and its code property.
Error(src, words, code) == [source |-> src, message |-> words, code |-> code]

NoError == Error("none", <<>>, "")

\* The message holds the words of pat one after the other.
Contains(msg, pat) ==
    \E i \in 1 .. (Len(msg) - Len(pat) + 1) : SubSeq(msg, i, i + Len(pat) - 1) = pat

\* /rate limit|rate_limit|ratelimit|quota|resource exhausted|
\*  resource_exhausted|too many requests|429/ and
\* /quota exceeded|billing|limit exceeded/
RateLimitPatterns ==
    { <<"rate", "limit">>, <<"rate_limit">>, <<"ratelimit">>, <<"quota">>,
      <<"resource", "exhausted">>, <<"resource_exhausted">>,
      <<"too", "many", "requests">>, <<"429">>,
      <<"quota", "exceeded">>, <<"billing">>, <<"limit", "exceeded">> }

\* Faulty variant: only the code property is looked at.
isRateLimitErrorByCode(e) == e.code = "429"

\* route.ts isRateLimitError: the code is "429" or the message matches.
isRateLimitError(e) ==
    \/ e.code = "429"
    \/ \E pat \in RateLimitPatterns : Contains(e.message, pat)

\* /default credentials|credentials|FIREBASE_SERVICE_ACCOUNT|
\*  GOOGLE_APPLICATION_CREDENTIALS/i
CredentialPatterns ==
    { <<"default", "credentials">>, <<"credentials">>,
      <<"firebase_service_account">>, <<"google_application_credentials">> }

isCredentialsError(msg) == \E pat \in CredentialPatterns : Contains(msg, pat)

\* getAdminFirestore line 52.
ErrInvalidJson ==
    Error("storage", <<"failed", "to", "initialize", "firebase", "admin",
                       "invalid", "service", "account", "json">>, "")

\* getAdminFirestore line 66.
ErrMissingEnv ==
    Error("storage", <<"firebase", "admin", "initialization", "failed", "missing",
                       "firebase_service_account", "or",
                       "next_public_firebase_project_id">>, "")

\* The store rejects an access of a process without credentials.
ErrNoCredentials ==
    Error("storage", <<"could", "not", "load", "the", "default", "credentials">>, "")

\* The store rejects an access: it is unreachable, or its quota is used up.
ErrUnavailable == Error("storage", <<"14", "unavailable">>, "14")
ErrQuota ==
    Error("storage", <<"8", "resource_exhausted", "quota", "exceeded">>, "8")

\* extractTextFromFile lines 40 and 60.
ErrFileTooLarge ==
    Error("extract", <<"file", "is", "too", "large", "please", "upload", "a",
                       "file", "under", "10mb">>, "")
ErrUnsupportedFile ==
    Error("extract", <<"unsupported", "file", "type", "please", "upload", "a",
                       "pdf", "or", "docx", "file">>, "")

\* getTailoredResume line 355.
ErrMissingApiKey ==
    Error("generate", <<"missing", "gemini", "api", "key", "set", "gemini_api_key",
                        "or", "google_api_key", "in", "your", "environment">>, "")

\* getTailoredResume line 527.
ErrNoResponse ==
    Error("generate", <<"llm", "did", "not", "return", "a", "response">>, "")

\* model.invoke rejects: the provider throttles, or it fails otherwise.
ErrModelBusy == Error("model", <<"429", "too", "many", "requests">>, "429")
ErrModelFailed == Error("model", <<"500", "internal", "error">>, "500")

\* latexToPdf line 338.
ErrRender ==
    Error("render", <<"failed", "to", "convert", "latex", "to", "pdf", "please",
                      "ensure", "latex", "code", "is", "valid">>, "")

\* pdfParse rejects the rendered buffer in getPdfPageCount.
ErrPdfParse == Error("pageCount", <<"invalid", "pdf", "structure">>, "")

\* ------------------------------------------------------- server environment

\* The credentials of the server process: a valid service account; a
\* FIREBASE_SERVICE_ACCOUNT that does not parse; neither variable set; a
\* project id alone, without default credentials.
Envs == {"ok", "invalidJson", "missing", "noCredentials"}

\* What getAdminFirestore (lines 16-74) throws, NoError if it returns.
InitError(e) ==
    IF e = "invalidJson" THEN ErrInvalidJson
    ELSE IF e = "missing" THEN ErrMissingEnv
    ELSE NoError

\* What an access to the store can fail with once getAdminFirestore returned.
AccessErrors(e) ==
    IF e = "noCredentials" THEN {ErrNoCredentials}
    ELSE IF e = "ok" THEN {ErrUnavailable, ErrQuota}
    ELSE {}

\* What a call that reaches the store can fail with.
StorageErrors(e) == IF InitError(e) # NoError THEN {InitError(e)} ELSE AccessErrors(e)

\* The locals of a request to the tailor endpoint: the result of the
\* reservation, the error caught, the loop variable, the number of
\* getTailoredResume and latexToPdf calls made, latexCode and pdfBuffer (the
\* number of the getTailoredResume call they come from, 0 when empty),
\* pageCount (None before the first count) and the number of counts that
\* were above one page; the shortenHint of every getTailoredResume call; and,
\* where a getTailoredResume call is followed attempt by attempt, its loop
\* variable and, call by call, the model invocations and sleeps made.
NoRequest ==
    [limitCheck |-> NoResult, error |-> NoError, iteration |-> 0,
     generated |-> 0, rendered |-> 0, latexCode |-> 0, pdfBuffer |-> 0,
     pageCount |-> None, overflows |-> 0,
     hints |-> <<>>, attempt |-> 0, trace |-> <<>>]

\* The Home component before it is mounted in a browser.
NoPage == [handler |-> "none"]

\* ---------------------------------------------------------------- init

Init ==
    /\ now = 0
    /\ db \in [Users -> {AbsentDoc, SpecialDoc}]
    /\ pc = [c \in Calls |-> "idle"]
    /\ op = [c \in Calls |-> "none"]
    /\ user = [c \in Calls |-> NoUser]
    /\ action = [c \in Calls |-> "none"]
    /\ today = [c \in Calls |-> None]
    /\ snap = [c \in Calls |-> AbsentDoc]
    /\ bodyTime = [c \in Calls |-> None]
    /\ result = [c \in Calls |-> NoResult]
    /\ endDay = [c \in Calls |-> None]
    /\ after = [c \in Calls |-> {}]
    /\ env = "ok"
    /\ tailor = [c \in Calls |-> NoRequest]
    /\ page = NoPage

\* --------------------------------------------------------------- clock

Tick ==
    /\ now < MaxTime
    /\ now' = now + 1
    /\ UNCHANGED <<db, pc, op, user, action, today, snap, bodyTime, result, endDay, after, env, tailor, page>>

\* ------------------------------------------------------------- helpers

\* The operations of the server-side ledger that the application calls.
LedgerOps == {"reserve", "status"}

\* The calls whose order in time is recorded: the ledger operations and the
\* requests to the tailor endpoint, which reserve.
Ordered == LedgerOps \cup {"tailor"}

\* The call returns r; what it held locally is gone, except what the claims
\* below refer to: the date a reserve call read.
Return(c, r) ==
    /\ pc' = [pc EXCEPT ![c] = "done"]
    /\ today' = IF op[c] = "reserve" THEN today ELSE [today EXCEPT ![c] = None]
    /\ result' = [result EXCEPT ![c] = r]
    /\ endDay' = IF op[c] \in LedgerOps
                 THEN [endDay EXCEPT ![c] = getTodayUTC(now)]
                 ELSE endDay
    /\ snap' = [snap EXCEPT ![c] = AbsentDoc]
    /\ bodyTime' = [bodyTime EXCEPT ![c] = None]

\* Call slots and user ids are names only, and are taken in order: slot c is
\* used once slot c - 1 is in use, user id u once u - 1 is in use.
Invoke(c, o, u, p) ==
    /\ pc[c] = "idle"
    /\ IF c = 1 THEN TRUE ELSE pc[c - 1] # "idle"
    /\ IF u <= 1 THEN TRUE ELSE \E k \in Calls : user[k] = u - 1
    /\ pc' = [pc EXCEPT ![c] = p]
    /\ op' = [op EXCEPT ![c] = o]
    /\ user' = [user EXCEPT ![c] = u]
    /\ after' = IF o \in Ordered
                THEN [after EXCEPT ![c] = {k \in Calls : pc[k] = "done" /\ op[k] \in Ordered}]
                ELSE after

\* ------------------------------------ checkAndReserveConversion (steps)

\* Lines 89-91: the call is entered and reads the date, before the
\* transaction starts.
ReserveBegin(c, u) ==
    /\ env = "ok"
    /\ Invoke(c, "reserve", u, "begun")
    /\ today' = [today EXCEPT ![c] = getTodayUTC(now)]
    /\ UNCHANGED <<now, db, action, snap, bodyTime, result, endDay, env, tailor, page>>

\* --------------------------------------- recordServerConversion (steps)

\* The transaction body of recordServerConversion: the document written.
RecordServerBody(doc, d, t) ==
    IF LastConversionDate(doc) = d
    THEN [res |-> VoidResult, doc |-> UpdateDoc(doc, ConversionsToday(doc) + 1, t)]
    ELSE [res |-> VoidResult, doc |-> SetMergeDoc(doc, d, t)]

\* Lines 192-194: the call is entered and reads the date.
RecordServerBegin(c, u) ==
    /\ env = "ok"
    /\ Invoke(c, "recordServer", u, "begun")
    /\ today' = [today EXCEPT ![c] = getTodayUTC(now)]
    /\ UNCHANGED <<now, db, action, snap, bodyTime, result, endDay, env, tailor, page>>

\* ------------------------------------------------ firestore.runTransaction

Transactional == {"reserve", "recordServer"}

TxBody(o, doc, d, t) ==
    IF o = "reserve" THEN ReserveBody(doc, d, t) ELSE RecordServerBody(doc, d, t)

\* transaction.get, then the body computes its result and its writes from
\* the document read; new Date() in the body is the clock at that time.
TxGet(c) ==
    /\ pc[c] = "begun" /\ op[c] \in Transactional
    /\ pc' = [pc EXCEPT ![c] = "read"]
    /\ snap' = [snap EXCEPT ![c] = db[user[c]]]
    /\ bodyTime' = [bodyTime EXCEPT ![c] = now]
    /\ UNCHANGED <<now, db, op, user, action, today, result, endDay, after, env, tailor, page>>

\* Faulty variant: a store without isolation, every commit goes through.
ConflictNever(c) == FALSE

\* The document the transaction read was written by someone else since.  A
\* call is retried once per conflicting commit, so with NumCalls calls it
\* stays below the attempt limit of runTransaction.
Conflict(c) == db[user[c]].ver # snap[c].ver

\* Faulty variant: the write goes to every document of the collection.
TxCommitCollection(c) ==
    /\ pc[c] = "read" /\ op[c] \in Transactional
    /\ ~Conflict(c)
    /\ LET b == TxBody(op[c], snap[c], today[c], bodyTime[c])
       IN /\ db' = [u \in DOMAIN db |-> IF b.doc = snap[c] THEN db[u] ELSE b.doc]
          /\ Return(c, b.res)
    /\ UNCHANGED <<now, op, user, action, after, env, tailor, page>>

\* runTransaction commits the writes of the body and the call returns.
TxCommit(c) ==
    /\ pc[c] = "read" /\ op[c] \in Transactional
    /\ ~Conflict(c)
    /\ LET b == TxBody(op[c], snap[c], today[c], bodyTime[c])
       IN /\ db' = [db EXCEPT ![user[c]] = b.doc]
          /\ Return(c, b.res)
    /\ UNCHANGED <<now, op, user, action, after, env, tailor, page>>

\* runTransaction runs the body again after a conflicting commit; the date
\* read before the transaction is outside the body and is not read again.
TxRetry(c) ==
    /\ pc[c] = "read" /\ op[c] \in Transactional
    /\ Conflict(c)
    /\ pc' = [pc EXCEPT ![c] = "begun"]
    /\ snap' = [snap EXCEPT ![c] = AbsentDoc]
    /\ bodyTime' = [bodyTime EXCEPT ![c] = None]
    /\ UNCHANGED <<now, db, op, user, action, today, result, endDay, after, env, tailor, page>>

\* ------------------------------------------ checkServerConversionLimit

\* Faulty variant: > instead of >=.
StatusBodyLenient(doc, d) ==
    IF ~doc.exists THEN Limit(TRUE, 1, "")
    ELSE IF doc.isSpecial THEN Limit(TRUE, -1, "")
    ELSE IF LastConversionDate(doc) = d
         THEN IF ConversionsToday(doc) > 1
              THEN Limit(FALSE, 0, DailyLimitReason)
              ELSE Limit(TRUE, 1 - ConversionsToday(doc), "")
         ELSE Limit(TRUE, 1, "")

\* Lines 157-184: the answer, from the document read and the date.
StatusBody(doc, d) ==
    IF ~doc.exists THEN Limit(TRUE, 1, "")
    ELSE IF doc.isSpecial THEN Limit(TRUE, -1, "")
    ELSE IF LastConversionDate(doc) = d
         THEN IF ConversionsToday(doc) >= 1
              THEN Limit(FALSE, 0, DailyLimitReason)
              ELSE Limit(TRUE, 1 - ConversionsToday(doc), "")
         ELSE Limit(TRUE, 1, "")

\* Lines 153-155: the call is entered and userDocRef.get() reads the
\* document, a plain read outside any transaction.
StatusGet(c, u) ==
    /\ env = "ok"
    /\ Invoke(c, "status", u, "read")
    /\ snap' = [snap EXCEPT ![c] = db[u]]
    /\ UNCHANGED <<now, db, action, today, bodyTime, result, endDay, env, tailor, page>>

\* Lines 157-184: the code after the read; it reads the date now.
StatusReturn(c) ==
    /\ pc[c] = "read" /\ op[c] = "status"
    /\ Return(c, StatusBody(snap[c], getTodayUTC(now)))
    /\ UNCHANGED <<now, db, op, user, action, after, env, tailor, page>>

\* ----------------------------------------------- rate-limit endpoint POST

Actions == {"check", "record", "other"}

Http(st, what, r, sp) ==
    [kind |-> "http", status |-> st, body |-> what, remaining |-> r, isSpecial |-> sp]

\* Faulty variant: the remaining reported is never below 0.
CheckResponseClamped(limitCheck) ==
    Http(200, "limit", IF limitCheck.remaining < 0 THEN 0 ELSE limitCheck.remaining,
         limitCheck.remaining = -1)

\* const remaining = limitCheck.remaining ?? 0; isSpecial: remaining === -1
CheckResponse(limitCheck) ==
    Http(200, "limit", limitCheck.remaining, limitCheck.remaining = -1)

\* Lines 15-20, 31-41: the answers that need no storage access.
DirectResponse(u, a) ==
    IF u = NoUser THEN Http(400, "User ID is required.", None, FALSE)
    ELSE IF a = "record"
         THEN Http(200, "Conversions are recorded by the tailor API.", None, FALSE)
         ELSE Http(400, "Invalid action.", None, FALSE)

\* Faulty variant: action "record" records a conversion.
PostDirectRecords(c, u, a) ==
    /\ u = NoUser \/ a # "check"
    /\ Invoke(c, "post", u, "done")
    /\ action' = [action EXCEPT ![c] = a]
    /\ result' = [result EXCEPT ![c] = DirectResponse(u, a)]
    /\ endDay' = endDay
    /\ db' = IF u # NoUser /\ a = "record"
             THEN [db EXCEPT ![u] = SetMergeDoc(@, getTodayUTC(now), now)]
             ELSE db
    /\ UNCHANGED <<now, today, snap, bodyTime, env, tailor, page>>

\* A request that is answered without storage access.
PostDirect(c, u, a) ==
    /\ u = NoUser \/ a # "check"
    /\ Invoke(c, "post", u, "done")
    /\ action' = [action EXCEPT ![c] = a]
    /\ result' = [result EXCEPT ![c] = DirectResponse(u, a)]
    /\ endDay' = endDay
    /\ UNCHANGED <<now, db, today, snap, bodyTime, env, tailor, page>>

\* Lines 22-23: action "check" calls checkServerConversionLimit, which reads
\* the document.
PostGet(c, u) ==
    /\ env = "ok"
    /\ Invoke(c, "post", u, "read")
    /\ action' = [action EXCEPT ![c] = "check"]
    /\ snap' = [snap EXCEPT ![c] = db[u]]
    /\ UNCHANGED <<now, db, today, bodyTime, result, endDay, env, tailor, page>>

\* Lines 24-28: the answer to action "check".
PostReturn(c) ==
    /\ pc[c] = "read" /\ op[c] = "post"
    /\ Return(c, CheckResponse(StatusBody(snap[c], getTodayUTC(now))))
    /\ UNCHANGED <<now, db, op, user, action, after, env, tailor, page>>

\* ------------------------------------------- client side (lib/rateLimit)

\* userData?.lastConversionDate || null and userData?.conversionsToday || 0
ClientCheckBody(doc, d) ==
    IF doc.exists /\ doc.isSpecial THEN Limit(TRUE, -1, "")
    ELSE IF LastConversionDate(doc) = d
         THEN IF ConversionsToday(doc) >= 1
              THEN Limit(FALSE, 0, DailyLimitReason)
              ELSE Limit(TRUE, 1 - ConversionsToday(doc), "")
         ELSE Limit(TRUE, 1, "")

Max(a, b) == IF a >= b THEN a ELSE b

UserLimits(sp, lcd, n, r) ==
    [kind |-> "status", isSpecial |-> sp, lastConversionDate |-> lcd,
     conversionsToday |-> n, remaining |-> r]

GetUserLimitStatusBody(doc, d) ==
    IF ~doc.exists THEN UserLimits(FALSE, None, 0, 1)
    ELSE IF doc.isSpecial
         THEN UserLimits(TRUE, LastConversionDate(doc), ConversionsToday(doc), -1)
         ELSE IF LastConversionDate(doc) = d
              THEN UserLimits(FALSE, LastConversionDate(doc), ConversionsToday(doc),
                              Max(0, 1 - ConversionsToday(doc)))
              ELSE UserLimits(FALSE, None, 0, 1)

ClientReadOnly == {"check", "limitStatus"}
ClientOps == {"check", "limitStatus", "record"}

ClientBody(o, doc, d) ==
    IF o = "check" THEN ClientCheckBody(doc, d) ELSE GetUserLimitStatusBody(doc, d)

\* The call is entered and getDoc(userDocRef) reads the document.
ClientGet(c, o, u) ==
    /\ o \in ClientOps
    /\ Invoke(c, o, u, "read")
    /\ snap' = [snap EXCEPT ![c] = db[u]]
    /\ UNCHANGED <<now, db, action, today, bodyTime, result, endDay, env, tailor, page>>

\* Faulty variant: a client-side read that also records a conversion.
ClientReturnRecords(c) ==
    /\ pc[c] = "read" /\ op[c] \in ClientReadOnly
    /\ Return(c, ClientBody(op[c], snap[c], getTodayUTC(now)))
    /\ db' = [db EXCEPT ![user[c]] = SetMergeDoc(@, getTodayUTC(now), now)]
    /\ UNCHANGED <<now, op, user, action, after, env, tailor, page>>

\* Faulty variant: the answer is computed from the document as it is stored
\* when the call returns.
ClientReturnIsolated(c) ==
    /\ pc[c] = "read" /\ op[c] \in ClientReadOnly
    /\ Return(c, ClientBody(op[c], db[user[c]], getTodayUTC(now)))
    /\ UNCHANGED <<now, db, op, user, action, after, env, tailor, page>>

\* checkConversionLimit and getUserLimitStatus: the code after the read.
ClientReturn(c) ==
    /\ pc[c] = "read" /\ op[c] \in ClientReadOnly
    /\ Return(c, ClientBody(op[c], snap[c], getTodayUTC(now)))
    /\ UNCHANGED <<now, db, op, user, action, after, env, tailor, page>>

\* recordConversion lines 76-99: the code after the read picks the write
\* from the document it read and sends it.
ClientRecordSend(c) ==
    /\ pc[c] = "read" /\ op[c] = "record"
    /\ pc' = [pc EXCEPT ![c] = "writing"]
    /\ today' = [today EXCEPT ![c] = getTodayUTC(now)]
    /\ UNCHANGED <<now, db, op, user, action, snap, bodyTime, result, endDay, after, env, tailor, page>>

\* The write recordConversion sent, applied to the stored document as it is
\* when the write arrives; serverTimestamp() is the clock at that time.
\* updateDoc of a missing document fails and the catch swallows the error.
ClientRecordWrite(cur, old, d, t) ==
    IF LastConversionDate(old) = d
    THEN IF cur.exists THEN UpdateDoc(cur, ConversionsToday(old) + 1, t) ELSE cur
    ELSE SetMergeDoc(cur, d, t)

ClientRecordApply(c) ==
    /\ pc[c] = "writing" /\ op[c] = "record"
    /\ db' = [db EXCEPT ![user[c]] = ClientRecordWrite(@, snap[c], today[c], now)]
    /\ Return(c, VoidResult)
    /\ UNCHANGED <<now, op, user, action, after, env, tailor, page>>

\* ------------------------------------------ rate-limit endpoint POST (catch)

\* Lines 42-62: the answer to a request whose storage access threw e.
PostCatch(e) ==
    IF isCredentialsError(e.message)
    THEN Http(200, "limit", 1, FALSE)
    ELSE Http(500, "Internal server error.", None, FALSE)

\* Faulty variant: the catch answers 500 whatever the error.
PostFailClosed(c, u, e) ==
    /\ e \in StorageErrors(env)
    /\ Invoke(c, "post", u, "done")
    /\ action' = [action EXCEPT ![c] = "check"]
    /\ result' = [result EXCEPT ![c] = Http(500, "Internal server error.", None, FALSE)]
    /\ endDay' = endDay
    /\ UNCHANGED <<now, db, today, snap, bodyTime, env, tailor, page>>

\* Action "check" when checkServerConversionLimit throws, in getAdminFirestore
\* or at userDocRef.get().
PostFail(c, u, e) ==
    /\ e \in StorageErrors(env)
    /\ Invoke(c, "post", u, "done")
    /\ action' = [action EXCEPT ![c] = "check"]
    /\ result' = [result EXCEPT ![c] = PostCatch(e)]
    /\ endDay' = endDay
    /\ UNCHANGED <<now, db, today, snap, bodyTime, env, tailor, page>>

\* --------------------------------------------------- getTailoredResume

MAX_LLM_RETRIES == 3
BACKOFF_MS == <<2000, 4000>>

\* What model.invoke can do on one attempt: NoError is a response.
InvokeOutcomes == {NoError, ErrModelBusy, ErrModelFailed}

\* Lines 511-528: the retry loop from the given attempt (0-based) on, where
\* run[attempt + 1] is what model.invoke does on that attempt: the error
\* thrown (NoError: a response is returned), the number of invocations made
\* and the sleeps taken.
RECURSIVE RetryLoop(_, _, _)
RetryLoop(run, attempt, sleeps) ==
    IF attempt >= MAX_LLM_RETRIES
    THEN [error |-> ErrNoResponse, invocations |-> attempt, sleeps |-> sleeps]
    ELSE LET invokeError == run[attempt + 1]
             isLastAttempt == attempt = MAX_LLM_RETRIES - 1
             delay == IF attempt + 1 <= Len(BACKOFF_MS)
                      THEN BACKOFF_MS[attempt + 1]
                      ELSE BACKOFF_MS[Len(BACKOFF_MS)]
         IN IF invokeError = NoError
            THEN [error |-> NoError, invocations |-> attempt + 1, sleeps |-> sleeps]
            ELSE IF isRateLimitError(invokeError) /\ ~isLastAttempt
                 THEN RetryLoop(run, attempt + 1, Append(sleeps, delay))
                 ELSE [error |-> invokeError, invocations |-> attempt + 1,
                       sleeps |-> sleeps]

\* Lines 351-357, then the retry loop.
getTailoredResume(apiKey, run) ==
    IF ~apiKey
    THEN [error |-> ErrMissingApiKey, invocations |-> 0, sleeps |-> <<>>]
    ELSE RetryLoop(run, 0, <<>>)

\* ------------------------------------------------- tailor endpoint POST

MAX_PAGE_ITERATIONS == 3

\* The highest page count a rendered document is reported to have.
MaxPages == 2

\* A response of the endpoint: the status, the error text in the parts it is
\* put together from, and the document (None in an error response).
TailorResponse(st, err, latex, pdf) ==
    [kind |-> "http", status |-> st, error |-> err,
     tailoredResumeText |-> latex, tailoredResumePdf |-> pdf]

BusyMessage == "The resume service is temporarily busy due to high demand. Please try again in a few minutes."
ConfigMessage == "Server configuration: set FIREBASE_SERVICE_ACCOUNT (Firebase service account JSON) for tailoring and rate limiting to work. See Firebase Admin setup docs."
\* The message of a process that does not run with NODE_ENV = development.
GenericMessage == "Please try again later."

\* Lines 664-686: the response of the catch block to the error e.
TailorCatch(e) ==
    LET isRateLimited == isRateLimitError(e)
        userMessage == IF isRateLimited THEN BusyMessage
                       ELSE IF isCredentialsError(e.message) THEN ConfigMessage
                       ELSE GenericMessage
    IN TailorResponse(IF isRateLimited THEN 503 ELSE 500,
                      IF isRateLimited THEN <<userMessage>>
                      ELSE <<"Failed to tailor resume. ", userMessage>>,
                      None, None)

\* The request of call c is answered with r.
Respond(c, r) ==
    /\ pc' = [pc EXCEPT ![c] = "done"]
    /\ result' = [result EXCEPT ![c] = r]

\* Faulty variant: a return before the work starts gives the slot back.
AnswerRefunds(c, r) ==
    /\ Respond(c, r)
    /\ tailor' = tailor
    /\ db' = [db EXCEPT ![user[c]].conversionsToday = 0]

\* A return statement of the handler: nothing else changes.
Answer(c, r) ==
    /\ Respond(c, r)
    /\ tailor' = tailor
    /\ db' = db

\* Faulty variant: the catch block gives the reserved slot back.
ThrownRefunds(c, req, e) ==
    /\ tailor' = [tailor EXCEPT ![c] = [req EXCEPT !.error = e]]
    /\ Respond(c, TailorCatch(e))
    /\ db' = [db EXCEPT ![user[c]].conversionsToday = 0]

\* Faulty variant: when a document was rendered before the error, it is
\* returned.
ThrownDegraded(c, req, e) ==
    /\ tailor' = [tailor EXCEPT ![c] = [req EXCEPT !.error = e]]
    /\ Respond(c, IF req.pdfBuffer # 0
                  THEN TailorResponse(200, <<>>, req.pdfBuffer, req.pdfBuffer)
                  ELSE TailorCatch(e))
    /\ db' = db

\* The error e is thrown inside the try block when the locals of the request
\* are req: the catch block answers, and writes nothing to the store.
Thrown(c, req, e) ==
    /\ tailor' = [tailor EXCEPT ![c] = [req EXCEPT !.error = e]]
    /\ Respond(c, TailorCatch(e))
    /\ db' = db

\* The handler is entered with the form field userId = u.
TailorInvoke(c, u, p) == Invoke(c, "tailor", u, p)

\* Faulty variant: the reservation is attempted before userId is examined.
TailorUnauthorizedLate(c) ==
    /\ TailorInvoke(c, NoUser, "done")
    /\ today' = [today EXCEPT ![c] = getTodayUTC(now)]
    /\ tailor' = [tailor EXCEPT ![c].limitCheck = Limit(TRUE, 0, "")]
    /\ result' = [result EXCEPT ![c] =
                     TailorResponse(401, <<"User authentication required.">>, None, None)]
    /\ UNCHANGED <<now, db, action, snap, bodyTime, endDay, env, page>>

\* Lines 558-570: a request without userId.
TailorUnauthorized(c) ==
    /\ TailorInvoke(c, NoUser, "done")
    /\ result' = [result EXCEPT ![c] =
                     TailorResponse(401, <<"User authentication required.">>, None, None)]
    /\ UNCHANGED <<now, db, action, today, snap, bodyTime, endDay, env, tailor, page>>

\* Line 574, serverRateLimit.ts line 89: getAdminFirestore throws.
TailorInitFail(c, u) ==
    /\ InitError(env) # NoError
    /\ TailorInvoke(c, u, "done")
    /\ tailor' = [tailor EXCEPT ![c].error = InitError(env)]
    /\ result' = [result EXCEPT ![c] = TailorCatch(InitError(env))]
    /\ UNCHANGED <<now, db, action, today, snap, bodyTime, endDay, env, page>>

\* Line 574, serverRateLimit.ts lines 89-91: checkAndReserveConversion is
\* entered and reads the date.
TailorBegin(c, u) ==
    /\ InitError(env) = NoError
    /\ TailorInvoke(c, u, "begun")
    /\ today' = [today EXCEPT ![c] = getTodayUTC(now)]
    /\ UNCHANGED <<now, db, action, snap, bodyTime, result, endDay, env, tailor, page>>

\* transaction.get and the body, as in TxGet.
TailorTxGet(c) ==
    /\ pc[c] = "begun" /\ op[c] = "tailor"
    /\ env = "ok"
    /\ pc' = [pc EXCEPT ![c] = "read"]
    /\ snap' = [snap EXCEPT ![c] = db[user[c]]]
    /\ bodyTime' = [bodyTime EXCEPT ![c] = now]
    /\ UNCHANGED <<now, db, op, user, action, today, result, endDay, after, env, tailor, page>>

\* Faulty variant: a failed reservation counts as a grant (the fail-open of
\* the client-side checkConversionLimit).
TailorTxFailOpen(c, e) ==
    /\ pc[c] \in {"begun", "read"} /\ op[c] = "tailor"
    /\ e \in AccessErrors(env)
    /\ tailor' = [tailor EXCEPT ![c].error = e, ![c].limitCheck = Limit(TRUE, 1, "")]
    /\ pc' = [pc EXCEPT ![c] = "granted"]
    /\ snap' = [snap EXCEPT ![c] = AbsentDoc]
    /\ bodyTime' = [bodyTime EXCEPT ![c] = None]
    /\ UNCHANGED <<now, db, op, user, action, today, result, endDay, after, env, page>>

\* runTransaction rejects with e, at the read or at the commit: nothing is
\* written, checkAndReserveConversion has no catch and the error reaches the
\* catch block of the handler.
TailorTxFail(c, e) ==
    /\ pc[c] \in {"begun", "read"} /\ op[c] = "tailor"
    /\ e \in AccessErrors(env)
    /\ Thrown(c, tailor[c], e)
    /\ snap' = [snap EXCEPT ![c] = AbsentDoc]
    /\ bodyTime' = [bodyTime EXCEPT ![c] = None]
    /\ UNCHANGED <<now, op, user, action, today, endDay, after, env, page>>

\* limitCheck.reason || "Conversion limit reached."
DenialText(limitCheck) ==
    IF limitCheck.reason = "" THEN "Conversion limit reached." ELSE limitCheck.reason

\* Faulty variant: the handler goes on whatever the reservation returned.
TailorTxCommitUnchecked(c) ==
    /\ pc[c] = "read" /\ op[c] = "tailor"
    /\ ~Conflict(c)
    /\ LET b == ReserveBody(snap[c], today[c], bodyTime[c])
       IN /\ db' = [db EXCEPT ![user[c]] = b.doc]
          /\ tailor' = [tailor EXCEPT ![c].limitCheck = b.res]
          /\ pc' = [pc EXCEPT ![c] = "granted"]
          /\ result' = result
    /\ endDay' = [endDay EXCEPT ![c] = getTodayUTC(now)]
    /\ snap' = [snap EXCEPT ![c] = AbsentDoc]
    /\ bodyTime' = [bodyTime EXCEPT ![c] = None]
    /\ UNCHANGED <<now, op, user, action, today, after, env, page>>

\* The transaction commits and checkAndReserveConversion returns; lines
\* 575-580: a denial is answered 429.
TailorTxCommit(c) ==
    /\ pc[c] = "read" /\ op[c] = "tailor"
    /\ ~Conflict(c)
    /\ LET b == ReserveBody(snap[c], today[c], bodyTime[c])
       IN /\ db' = [db EXCEPT ![user[c]] = b.doc]
          /\ tailor' = [tailor EXCEPT ![c].limitCheck = b.res]
          /\ IF ~b.res.allowed
             THEN Respond(c, TailorResponse(429, <<DenialText(b.res)>>, None, None))
             ELSE /\ pc' = [pc EXCEPT ![c] = "granted"]
                  /\ result' = result
    /\ endDay' = [endDay EXCEPT ![c] = getTodayUTC(now)]
    /\ snap' = [snap EXCEPT ![c] = AbsentDoc]
    /\ bodyTime' = [bodyTime EXCEPT ![c] = None]
    /\ UNCHANGED <<now, op, user, action, today, after, env, page>>

\* The body runs again after a conflicting commit, as in TxRetry.
TailorTxRetry(c) ==
    /\ pc[c] = "read" /\ op[c] = "tailor"
    /\ Conflict(c)
    /\ pc' = [pc EXCEPT ![c] = "begun"]
    /\ snap' = [snap EXCEPT ![c] = AbsentDoc]
    /\ bodyTime' = [bodyTime EXCEPT ![c] = None]
    /\ UNCHANGED <<now, db, op, user, action, today, result, endDay, after, env, tailor, page>>

\* The resume of a request: pasted text; a file with text, without text, too
\* large or of another type; nothing.
ResumeInputs == {"text", "file", "blankFile", "largeFile", "otherFile", "none"}

\* What extractTextFromFile throws on the file.
ExtractError(resume) ==
    IF resume = "largeFile" THEN ErrFileTooLarge
    ELSE IF resume = "otherFile" THEN ErrUnsupportedFile
    ELSE NoError

\* Faulty variant: the form fields are not examined before the work starts.
TailorValidateNothing(c, jobDescription, resume) ==
    /\ pc[c] = "granted" /\ op[c] = "tailor"
    /\ pc' = [pc EXCEPT ![c] = "generate"]
    /\ UNCHANGED <<db, result, tailor>>
    /\ UNCHANGED <<now, op, user, action, today, snap, bodyTime, endDay, after, env, page>>

\* Lines 584-614: the form fields are examined, after the reservation.
TailorValidate(c, jobDescription, resume) ==
    /\ pc[c] = "granted" /\ op[c] = "tailor"
    /\ IF ~jobDescription
       THEN Answer(c, TailorResponse(400, <<"Job description is required.">>, None, None))
       ELSE IF resume = "none"
       THEN Answer(c, TailorResponse(400,
                <<"Please provide either a resume file or paste resume text.">>, None, None))
       ELSE IF ExtractError(resume) # NoError
       THEN Thrown(c, tailor[c], ExtractError(resume))
       ELSE IF resume = "blankFile"
       THEN Answer(c, TailorResponse(400,
                <<"Resume text is empty. Please provide a valid resume file or paste resume content.">>,
                None, None))
       ELSE /\ pc' = [pc EXCEPT ![c] = "generate"]
            /\ UNCHANGED <<db, result, tailor>>
    /\ UNCHANGED <<now, op, user, action, today, snap, bodyTime, endDay, after, env, page>>

\* shortenHint: undefined at line 625, the texts of lines 635 and 636.
NoHint == "undefined"
ModerateHint == "Your previous output was more than one page. You MUST shorten it: reduce to 2-3 bullet points per role, use more concise phrasing, omit less relevant roles or sections. The resume MUST fit on a single A4 page. Preserve the most important achievements and maintain skills categorization."
AggressiveHint == "Your output is STILL more than one page. Be more aggressive: at most 2 bullets per role, more concise wording, but still maintain skills categorization. Fit on ONE page only."

\* Faulty variant: the hint of the first pass of the loop is passed again.
ShortenHintRepeats(iteration) ==
    IF iteration = 0 THEN NoHint ELSE ModerateHint

\* The shortenHint of the getTailoredResume call of the pass with loop
\* variable iteration (0: the pass before the loop).
ShortenHint(iteration) ==
    IF iteration = 0 THEN NoHint
    ELSE IF iteration = 1 THEN ModerateHint
    ELSE AggressiveHint

\* The locals of request c when it enters a getTailoredResume call.
Entered(c) ==
    [tailor[c] EXCEPT !.generated = @ + 1,
                      !.hints = Append(@, ShortenHint(tailor[c].iteration))]

\* Lines 622-626 and 638-642: one getTailoredResume call.
TailorGenerate(c, apiKey, run) ==
    /\ pc[c] = "generate" /\ op[c] = "tailor"
    /\ LET g == getTailoredResume(apiKey, run)
           req == Entered(c)
       IN IF g.error # NoError
          THEN Thrown(c, req, g.error)
          ELSE /\ tailor' = [tailor EXCEPT ![c] = [req EXCEPT !.latexCode = req.generated]]
               /\ pc' = [pc EXCEPT ![c] = "render"]
               /\ UNCHANGED <<db, result>>
    /\ UNCHANGED <<now, op, user, action, today, snap, bodyTime, endDay, after, env, page>>

\* ------------------------------ getTailoredResume, attempt by attempt

\* What a getTailoredResume call did: a model.invoke that threw e (NoError:
\* it returned a response), a sleep of ms milliseconds.
Invoked(e) == [kind |-> "invoke", error |-> e, ms |-> 0]
Slept(ms) == [kind |-> "sleep", error |-> NoError, ms |-> ms]

\* The locals req with the event ev added to the call in progress.
Logged(req, ev) ==
    [req EXCEPT !.trace = [@ EXCEPT ![Len(@)] = Append(@, ev)]]

\* Faulty variant: the delays are taken in the other order.
BackoffDelayReversed(attempt) ==
    IF attempt + 1 <= Len(BACKOFF_MS)
    THEN BACKOFF_MS[Len(BACKOFF_MS) - attempt]
    ELSE BACKOFF_MS[1]

\* Line 518: BACKOFF_MS[attempt] ?? BACKOFF_MS[BACKOFF_MS.length - 1]
BackoffDelay(attempt) ==
    IF attempt + 1 <= Len(BACKOFF_MS)
    THEN BACKOFF_MS[attempt + 1]
    ELSE BACKOFF_MS[Len(BACKOFF_MS)]

\* Faulty variant: the attempt counter is kept from the call before.
GenerateEnterKeepsAttempt(c, apiKey) ==
    /\ pc[c] = "generate" /\ op[c] = "tailor"
    /\ LET req == [Entered(c) EXCEPT !.trace = Append(@, <<>>)]
       IN IF ~apiKey
          THEN Thrown(c, req, ErrMissingApiKey)
          ELSE /\ tailor' = [tailor EXCEPT ![c] = req]
               /\ pc' = [pc EXCEPT ![c] = "invoke"]
               /\ UNCHANGED <<db, result>>
    /\ UNCHANGED <<now, op, user, action, today, snap, bodyTime, endDay, after, env, page>>

\* Lines 622 and 638, 351-358, 511: getTailoredResume is entered; without
\* an API key it throws, else the loop starts with attempt = 0.
GenerateEnter(c, apiKey) ==
    /\ pc[c] = "generate" /\ op[c] = "tailor"
    /\ LET req == [Entered(c) EXCEPT !.attempt = 0, !.trace = Append(@, <<>>)]
       IN IF ~apiKey
          THEN Thrown(c, req, ErrMissingApiKey)
          ELSE /\ tailor' = [tailor EXCEPT ![c] = req]
               /\ pc' = [pc EXCEPT ![c] = "invoke"]
               /\ UNCHANGED <<db, result>>
    /\ UNCHANGED <<now, op, user, action, today, snap, bodyTime, endDay, after, env, page>>

\* Faulty variant: every error is retried.
ModelInvokeRetriesAll(c, invokeError) ==
    /\ pc[c] = "invoke" /\ op[c] = "tailor"
    /\ LET req == Logged(tailor[c], Invoked(invokeError))
           isLastAttempt == req.attempt = MAX_LLM_RETRIES - 1
       IN IF invokeError = NoError
          THEN /\ tailor' = [tailor EXCEPT ![c] = [req EXCEPT !.latexCode = req.generated]]
               /\ pc' = [pc EXCEPT ![c] = "render"]
               /\ UNCHANGED <<db, result>>
          ELSE IF ~isLastAttempt
          THEN /\ tailor' = [tailor EXCEPT ![c] = req]
               /\ pc' = [pc EXCEPT ![c] = "sleep"]
               /\ UNCHANGED <<db, result>>
          ELSE Thrown(c, req, invokeError)
    /\ UNCHANGED <<now, op, user, action, today, snap, bodyTime, endDay, after, env, page>>

\* Faulty variant: the attempt before the last counts as the last.
ModelInvokeGivesUp(c, invokeError) ==
    /\ pc[c] = "invoke" /\ op[c] = "tailor"
    /\ LET req == Logged(tailor[c], Invoked(invokeError))
           isLastAttempt == req.attempt >= MAX_LLM_RETRIES - 2
       IN IF invokeError = NoError
          THEN /\ tailor' = [tailor EXCEPT ![c] = [req EXCEPT !.latexCode = req.generated]]
               /\ pc' = [pc EXCEPT ![c] = "render"]
               /\ UNCHANGED <<db, result>>
          ELSE IF isRateLimitError(invokeError) /\ ~isLastAttempt
          THEN /\ tailor' = [tailor EXCEPT ![c] = req]
               /\ pc' = [pc EXCEPT ![c] = "sleep"]
               /\ UNCHANGED <<db, result>>
          ELSE Thrown(c, req, invokeError)
    /\ UNCHANGED <<now, op, user, action, today, snap, bodyTime, endDay, after, env, page>>

\* Lines 512-524: one attempt. model.invoke returns a response and the loop
\* is left (the response becomes latexCode), or it throws invokeError, which
\* is followed by a sleep or thrown on.
ModelInvoke(c, invokeError) ==
    /\ pc[c] = "invoke" /\ op[c] = "tailor"
    /\ LET req == Logged(tailor[c], Invoked(invokeError))
           isLastAttempt == req.attempt = MAX_LLM_RETRIES - 1
       IN IF invokeError = NoError
          THEN /\ tailor' = [tailor EXCEPT ![c] = [req EXCEPT !.latexCode = req.generated]]
               /\ pc' = [pc EXCEPT ![c] = "render"]
               /\ UNCHANGED <<db, result>>
          ELSE IF isRateLimitError(invokeError) /\ ~isLastAttempt
          THEN /\ tailor' = [tailor EXCEPT ![c] = req]
               /\ pc' = [pc EXCEPT ![c] = "sleep"]
               /\ UNCHANGED <<db, result>>
          ELSE Thrown(c, req, invokeError)
    /\ UNCHANGED <<now, op, user, action, today, snap, bodyTime, endDay, after, env, page>>

\* Lines 518-520 and attempt++ of line 511: the sleep is over and the next
\* attempt begins.
Backoff(c) ==
    /\ pc[c] = "sleep" /\ op[c] = "tailor"
    /\ tailor' = [tailor EXCEPT ![c] =
                     [Logged(tailor[c], Slept(BackoffDelay(tailor[c].attempt)))
                         EXCEPT !.attempt = @ + 1]]
    /\ pc' = [pc EXCEPT ![c] = "invoke"]
    /\ UNCHANGED <<now, db, op, user, action, today, snap, bodyTime, result, endDay,
                   after, env, page>>

\* Faulty variant: a document without a reported page count is taken to be
\* too long.
getPdfPageCountUnknown(numpages) == IF numpages = None THEN MaxPages ELSE numpages

\* (parsed as {numpages?: number}).numpages ?? 0
getPdfPageCount(numpages) == IF numpages = None THEN 0 ELSE numpages

\* What latexToPdf and getPdfPageCount can do on one pass: an error thrown by
\* one of them, or the numpages the parser reports (None: it reports none).
RenderOutcomes ==
    {[error |-> e, numpages |-> None] : e \in {ErrRender, ErrPdfParse}} \cup
    {[error |-> NoError, numpages |-> n] : n \in (0 .. MaxPages) \cup {None}}

\* Faulty variant: the loop has no break.
MorePassesNoBreak(iteration, pageCount) ==
    IF iteration = 0
    THEN pageCount > 1 /\ 1 < MAX_PAGE_ITERATIONS
    ELSE iteration + 1 < MAX_PAGE_ITERATIONS

\* Faulty variant: <= instead of < in the loop condition.
MorePassesOffByOne(iteration, pageCount) ==
    IF iteration = 0
    THEN pageCount > 1 /\ 1 <= MAX_PAGE_ITERATIONS
    ELSE ~(pageCount <= 1) /\ iteration + 1 <= MAX_PAGE_ITERATIONS

\* Lines 631-646: another pass follows the pass with loop variable iteration
\* (0: the pass before the loop) that ended with pageCount.
MorePasses(iteration, pageCount) ==
    IF iteration = 0
    THEN pageCount > 1 /\ 1 < MAX_PAGE_ITERATIONS
    ELSE ~(pageCount <= 1) /\ iteration + 1 < MAX_PAGE_ITERATIONS

\* Faulty variant: the document of the first pass is returned.
SuccessFirst(req) == TailorResponse(200, <<>>, 1, 1)

\* Faulty variant: the PDF of the first pass is returned with the latest LaTeX.
SuccessStalePdf(req) == TailorResponse(200, <<>>, req.latexCode, 1)

\* Lines 657-663: the response that carries latexCode and pdfBuffer.
Success(req) == TailorResponse(200, <<>>, req.latexCode, req.pdfBuffer)

\* Lines 627-628 and 643-645: latexToPdf and getPdfPageCount of one pass,
\* then the loop goes on or lines 649-663 answer with the document.
TailorRender(c, out) ==
    /\ pc[c] = "render" /\ op[c] = "tailor"
    /\ LET req == [tailor[c] EXCEPT !.rendered = @ + 1]
           buf == [req EXCEPT !.pdfBuffer = req.latexCode]
           pageCount == getPdfPageCount(out.numpages)
           counted == [buf EXCEPT !.pageCount = pageCount,
                                  !.overflows = IF pageCount > 1 THEN @ + 1 ELSE @]
       IN IF out.error = ErrRender THEN Thrown(c, req, out.error)
          ELSE IF out.error # NoError THEN Thrown(c, buf, out.error)
          ELSE IF MorePasses(counted.iteration, pageCount)
          THEN /\ tailor' = [tailor EXCEPT ![c] = [counted EXCEPT !.iteration = @ + 1]]
               /\ pc' = [pc EXCEPT ![c] = "generate"]
               /\ UNCHANGED <<db, result>>
          ELSE /\ tailor' = [tailor EXCEPT ![c] = counted]
               /\ Respond(c, Success(counted))
               /\ db' = db
    /\ UNCHANGED <<now, op, user, action, today, snap, bodyTime, endDay, after, env, page>>

\* ------------------------------------------------- Home (app/page.tsx)

\* limitStatus: null, or {remaining, isSpecial}.
NoStatus == [kind |-> "null"]
LimitStatus(r, sp) == [kind |-> "status", remaining |-> r, isSpecial |-> sp]

\* A fetch whose promise rejects: the request got no response.
FetchRejected == [kind |-> "rejected"]

\* fetchLimitStatus, lines 7-22: from what fetch gives, the error thrown or
\* the status returned.
fetchLimitStatus(res) ==
    IF res.kind = "rejected"
    THEN [threw |-> TRUE, message |-> "fetch failed", status |-> NoStatus]
    ELSE IF res.status \notin 200 .. 299
    THEN [threw |-> TRUE,
          message |-> IF res.body # "" THEN res.body ELSE "Failed to load limit status.",
          status |-> NoStatus]
    ELSE [threw |-> FALSE, message |-> "",
          status |-> LimitStatus(IF res.remaining = None THEN 0 ELSE res.remaining,
                                 res.isSpecial)]

\* What a "check" request for user u can be answered with at this instant:
\* the answer of the endpoint from the record, its answer when the storage
\* access fails, or no response.  The page sends no request without a user.
LimitResponses(u) ==
    IF u = NoUser THEN {}
    ELSE {CheckResponse(StatusBody(db[u], getTodayUTC(now)))}
         \cup {PostCatch(e) : e \in StorageErrors(env)}
         \cup {FetchRejected}

\* !limitStatus.isSpecial && limitStatus.remaining === 0
LimitReached(s) == s.kind = "status" /\ ~s.isSpecial /\ s.remaining = 0

\* Lines 708-714: the disabled attribute of the tailor button.  form: a
\* resume and a job description are filled in.
Disabled(p) ==
    \/ ~p.form
    \/ p.isTailoring
    \/ p.checkingLimit
    \/ LimitReached(p.limitStatus)

\* Lines 29-78: the component after its first render for the signed-in user
\* u (NoUser: nobody is signed in).  handler is the position of
\* handleTailorClick, loads the fetchLimitStatus calls in flight outside it:
\* the one of the effect of lines 63-78 and the refresh of lines 224-235.
Mounted(form, u) ==
    [handler |-> "idle", form |-> form, user |-> u,
     isTailoring |-> FALSE, checkingLimit |-> FALSE, error |-> "",
     limitStatus |-> NoStatus, tailored |-> FALSE, showContactPopup |-> FALSE,
     loads |-> IF u # NoUser THEN {"mount"} ELSE {}]

\* The rest of the program does not change while the page acts.
ServerUnchanged ==
    UNCHANGED <<now, db, pc, op, user, action, today, snap, bodyTime, result, endDay,
                after, env, tailor>>

\* Line 641 and the resume inputs: the form is filled in or emptied.
PageEdit ==
    /\ page' = [page EXCEPT !.form = ~@]
    /\ ServerUnchanged

\* Lines 132-144: a click on the enabled button runs handleTailorClick up to
\* its first await.
PageClick ==
    /\ page.handler = "idle"
    /\ ~Disabled(page)
    /\ page' = IF ~page.form THEN page
               ELSE IF page.user = NoUser
               THEN [page EXCEPT !.error = "Please sign in to use this service."]
               ELSE [page EXCEPT !.checkingLimit = TRUE, !.handler = "checking"]
    /\ ServerUnchanged

\* Lines 144-155: fetchLimitStatus settles.  When it throws, the promise of
\* the handler rejects at line 144 and nothing after it runs.
PageLimitFetched(res) ==
    /\ page.handler = "checking"
    /\ res \in LimitResponses(page.user)
    /\ LET r == fetchLimitStatus(res)
       IN page' =
            IF r.threw THEN [page EXCEPT !.handler = "idle"]
            ELSE IF LimitReached(r.status)
            THEN [page EXCEPT !.checkingLimit = FALSE, !.handler = "idle",
                    !.error = "You have reached your daily limit of 1 conversion. Please try again tomorrow."]
            ELSE [page EXCEPT !.checkingLimit = FALSE, !.isTailoring = TRUE,
                              !.error = "", !.tailored = FALSE,
                              !.handler = "tailoring"]
    /\ ServerUnchanged

TailorOutcomes == {"served", "failed", "rejected"}

\* Lines 157-242: the request to the tailor endpoint settles.  The endpoint
\* is taken as a whole: it reserves the slot of the user and then serves the
\* document or fails.  out = "rejected": the fetch got no response.
PageTailorFetched(out) ==
    /\ page.handler = "tailoring"
    /\ LET b == ReserveBody(db[page.user], getTodayUTC(now), now)
           response == IF Denied(b.res)
                       THEN TailorResponse(429, <<DailyLimitReason>>, None, None)
                       ELSE IF out = "served" THEN TailorResponse(200, <<>>, 1, 1)
                       ELSE TailorResponse(500, <<GenericMessage>>, None, None)
           done == [page EXCEPT !.isTailoring = FALSE, !.handler = "idle"]
       IN IF out = "rejected"
          THEN /\ page' = [done EXCEPT !.error = "fetch failed"]
               /\ db' = db
          ELSE /\ db' = [db EXCEPT ![page.user] = b.doc]
               /\ page' = IF response.status \notin 200 .. 299
                          THEN [done EXCEPT !.error = response.error[1]]
                          ELSE [done EXCEPT !.tailored = TRUE,
                                            !.loads = @ \cup {"refresh"}]
    /\ UNCHANGED <<now, pc, op, user, action, today, snap, bodyTime, result, endDay,
                   after, env, tailor>>

\* Lines 65-75 and 225-234: a fetchLimitStatus call outside the handler
\* settles.  The effect catches an error and clears limitStatus; the refresh
\* has no catch.
PageLoaded(load, res) ==
    /\ load \in page.loads
    /\ res \in LimitResponses(page.user)
    /\ LET r == fetchLimitStatus(res)
           rest == [page EXCEPT !.loads = @ \ {load}]
       IN page' =
            IF load = "mount"
            THEN [rest EXCEPT !.limitStatus = IF r.threw THEN NoStatus ELSE r.status]
            ELSE IF r.threw THEN rest
            ELSE [rest EXCEPT !.limitStatus = r.status,
                              !.showContactPopup = @ \/ LimitReached(r.status)]
    /\ ServerUnchanged

\* -------------------------------------------------------- specifications

\* checkAndReserveConversion alone, under a running clock.
NextReserve ==
    \/ Tick
    \/ \E c \in Calls, u \in Users : ReserveBegin(c, u)
    \/ \E c \in Calls : TxGet(c)
    \/ \E c \in Calls : TxCommit(c)
    \/ \E c \in Calls : TxRetry(c)

SpecReserve == Init /\ [][NextReserve]_vars

\* The two operations of the server-side ledger that the application calls.
NextLedger ==
    \/ NextReserve
    \/ \E c \in Calls, u \in Users : StatusGet(c, u)
    \/ \E c \in Calls : StatusReturn(c)

SpecLedger == Init /\ [][NextLedger]_vars

\* Every exported operation of both quota modules and the status endpoint,
\* with at most NumAllCalls calls in a behaviour.
AllCalls == 1 .. NumAllCalls

Next ==
    \/ Tick
    \/ \E c \in AllCalls, u \in Users : ReserveBegin(c, u)
    \/ \E c \in AllCalls : TxGet(c)
    \/ \E c \in AllCalls : TxCommit(c)
    \/ \E c \in AllCalls : TxRetry(c)
    \/ \E c \in AllCalls, u \in Users : StatusGet(c, u)
    \/ \E c \in AllCalls : StatusReturn(c)
    \/ \E c \in AllCalls, u \in Users : RecordServerBegin(c, u)
    \/ \E c \in AllCalls, u \in Users \cup {NoUser}, a \in Actions : PostDirect(c, u, a)
    \/ \E c \in AllCalls, u \in Users : PostGet(c, u)
    \/ \E c \in AllCalls : PostReturn(c)
    \/ \E c \in AllCalls, u \in Users, o \in ClientOps : ClientGet(c, o, u)
    \/ \E c \in AllCalls : ClientReturn(c)
    \/ \E c \in AllCalls : ClientRecordSend(c)
    \/ \E c \in AllCalls : ClientRecordApply(c)

Spec == Init /\ [][Next]_vars

\* The two ledger operations applied to every record state at every instant:
\* the record of a user starts as any record the collection can hold, and the
\* clock stands at any instant.
MaxCount == 2

Days == 0 .. getTodayUTC(MaxTime)

RecordStates ==
    {AbsentDoc} \cup
    {[AbsentDoc EXCEPT !.exists = TRUE, !.isSpecial = sp,
                       !.lastConversionDate = d, !.conversionsToday = n] :
        sp \in BOOLEAN, d \in Days \cup {None}, n \in (0 .. MaxCount) \cup {None}}

InitDecide ==
    /\ now \in 0 .. MaxTime
    /\ \E doc \in RecordStates : db = [u \in Users |-> doc]
    /\ pc = [c \in Calls |-> "idle"]
    /\ op = [c \in Calls |-> "none"]
    /\ user = [c \in Calls |-> NoUser]
    /\ action = [c \in Calls |-> "none"]
    /\ today = [c \in Calls |-> None]
    /\ snap = [c \in Calls |-> AbsentDoc]
    /\ bodyTime = [c \in Calls |-> None]
    /\ result = [c \in Calls |-> NoResult]
    /\ endDay = [c \in Calls |-> None]
    /\ after = [c \in Calls |-> {}]
    /\ env = "ok"
    /\ tailor = [c \in Calls |-> NoRequest]
    /\ page = NoPage

NextDecide ==
    \/ \E c \in AllCalls, u \in Users : ReserveBegin(c, u)
    \/ \E c \in AllCalls : TxGet(c)
    \/ \E c \in AllCalls : TxCommit(c)
    \/ \E c \in AllCalls : TxRetry(c)
    \/ \E c \in AllCalls, u \in Users : StatusGet(c, u)
    \/ \E c \in AllCalls : StatusReturn(c)

SpecDecide == InitDecide /\ [][NextDecide]_vars

\* The rate-limit endpoint alone, asked about every record state at every
\* instant while nothing writes the records.
NextCheck ==
    \/ \E c \in AllCalls, u \in Users \cup {NoUser}, a \in Actions : PostDirect(c, u, a)
    \/ \E c \in AllCalls, u \in Users : PostGet(c, u)
    \/ \E c \in AllCalls : PostReturn(c)

SpecCheck == InitDecide /\ [][NextCheck]_vars

\* The Home component in front of the two endpoints, under a running clock.
InitPage ==
    /\ now = 0
    /\ db \in [Users -> {AbsentDoc, SpecialDoc}]
    /\ pc = [c \in Calls |-> "idle"]
    /\ op = [c \in Calls |-> "none"]
    /\ user = [c \in Calls |-> NoUser]
    /\ action = [c \in Calls |-> "none"]
    /\ today = [c \in Calls |-> None]
    /\ snap = [c \in Calls |-> AbsentDoc]
    /\ bodyTime = [c \in Calls |-> None]
    /\ result = [c \in Calls |-> NoResult]
    /\ endDay = [c \in Calls |-> None]
    /\ after = [c \in Calls |-> {}]
    /\ env = "ok"
    /\ tailor = [c \in Calls |-> NoRequest]
    /\ \E form \in BOOLEAN, u \in Users \cup {NoUser} : page = Mounted(form, u)

NextPage ==
    \/ Tick
    \/ PageEdit
    \/ PageClick
    \/ \E res \in LimitResponses(page.user) : PageLimitFetched(res)
    \/ \E out \in TailorOutcomes : PageTailorFetched(out)
    \/ \E load \in {"mount", "refresh"}, res \in LimitResponses(page.user) :
          PageLoaded(load, res)

SpecPage == InitPage /\ [][NextPage]_vars

\* checkAndReserveConversion called for several users of one collection
\* under a running clock: one user more than Users holds.
FrameUsers == 1 .. NumUsers + 1

InitFrame ==
    /\ now = 0
    /\ db \in [FrameUsers -> {AbsentDoc, SpecialDoc}]
    /\ pc = [c \in Calls |-> "idle"]
    /\ op = [c \in Calls |-> "none"]
    /\ user = [c \in Calls |-> NoUser]
    /\ action = [c \in Calls |-> "none"]
    /\ today = [c \in Calls |-> None]
    /\ snap = [c \in Calls |-> AbsentDoc]
    /\ bodyTime = [c \in Calls |-> None]
    /\ result = [c \in Calls |-> NoResult]
    /\ endDay = [c \in Calls |-> None]
    /\ after = [c \in Calls |-> {}]
    /\ env = "ok"
    /\ tailor = [c \in Calls |-> NoRequest]
    /\ page = NoPage

NextFrame ==
    \/ Tick
    \/ \E c \in AllCalls, u \in FrameUsers : ReserveBegin(c, u)
    \/ \E c \in AllCalls : TxGet(c)
    \/ \E c \in AllCalls : TxCommit(c)
    \/ \E c \in AllCalls : TxRetry(c)

SpecFrame == InitFrame /\ [][NextFrame]_vars

\* The two endpoints of the server under every configuration of its
\* credentials: requests to the tailor endpoint and "check" requests to the
\* rate-limit endpoint.
InitTailor ==
    /\ now = 0
    /\ db \in [Users -> {AbsentDoc, SpecialDoc}]
    /\ pc = [c \in Calls |-> "idle"]
    /\ op = [c \in Calls |-> "none"]
    /\ user = [c \in Calls |-> NoUser]
    /\ action = [c \in Calls |-> "none"]
    /\ today = [c \in Calls |-> None]
    /\ snap = [c \in Calls |-> AbsentDoc]
    /\ bodyTime = [c \in Calls |-> None]
    /\ result = [c \in Calls |-> NoResult]
    /\ endDay = [c \in Calls |-> None]
    /\ after = [c \in Calls |-> {}]
    /\ env \in Envs
    /\ tailor = [c \in Calls |-> NoRequest]
    /\ page = NoPage

\* The steps of the requests to the tailor endpoint.
TailorStep(c) ==
    \/ TailorUnauthorized(c)
    \/ \E u \in Users : TailorInitFail(c, u)
    \/ \E u \in Users : TailorBegin(c, u)
    \/ TailorTxGet(c)
    \/ \E e \in AccessErrors(env) : TailorTxFail(c, e)
    \/ TailorTxCommit(c)
    \/ TailorTxRetry(c)
    \/ \E jobDescription \in BOOLEAN, resume \in ResumeInputs :
          TailorValidate(c, jobDescription, resume)
    \/ \E apiKey \in BOOLEAN, run \in [1 .. MAX_LLM_RETRIES -> InvokeOutcomes] :
          TailorGenerate(c, apiKey, run)
    \/ \E out \in RenderOutcomes : TailorRender(c, out)

NextTailor ==
    \/ Tick
    \/ \E c \in AllCalls : TailorStep(c)
    \/ \E c \in AllCalls, u \in Users : PostGet(c, u)
    \/ \E c \in AllCalls : PostReturn(c)
    \/ \E c \in AllCalls, u \in Users, e \in StorageErrors(env) : PostFail(c, u, e)

SpecTailor == InitTailor /\ [][NextTailor]_vars

\* One request to the tailor endpoint, followed through every await, for
\* every record the user can have when the request arrives.
InitRequest ==
    /\ now = 0
    /\ \E doc \in RecordStates : db = [u \in Users |-> doc]
    /\ pc = [c \in Calls |-> "idle"]
    /\ op = [c \in Calls |-> "none"]
    /\ user = [c \in Calls |-> NoUser]
    /\ action = [c \in Calls |-> "none"]
    /\ today = [c \in Calls |-> None]
    /\ snap = [c \in Calls |-> AbsentDoc]
    /\ bodyTime = [c \in Calls |-> None]
    /\ result = [c \in Calls |-> NoResult]
    /\ endDay = [c \in Calls |-> None]
    /\ after = [c \in Calls |-> {}]
    /\ env = "ok"
    /\ tailor = [c \in Calls |-> NoRequest]
    /\ page = NoPage

NextRequest ==
    \/ TailorUnauthorized(1)
    \/ \E u \in Users : TailorBegin(1, u)
    \/ TailorTxGet(1)
    \/ \E e \in AccessErrors(env) : TailorTxFail(1, e)
    \/ TailorTxCommit(1)
    \/ \E jobDescription \in BOOLEAN, resume \in ResumeInputs :
          TailorValidate(1, jobDescription, resume)
    \/ \E apiKey \in BOOLEAN : GenerateEnter(1, apiKey)
    \/ \E invokeError \in InvokeOutcomes : ModelInvoke(1, invokeError)
    \/ Backoff(1)
    \/ \E out \in RenderOutcomes : TailorRender(1, out)

SpecRequest == InitRequest /\ [][NextRequest]_vars

\* The client-side pair checkConversionLimit and recordConversion, called
\* concurrently under a running clock.
NextClient ==
    \/ Tick
    \/ \E c \in Calls, u \in Users, o \in {"check", "record"} : ClientGet(c, o, u)
    \/ \E c \in Calls : ClientReturn(c)
    \/ \E c \in Calls : ClientRecordSend(c)
    \/ \E c \in Calls : ClientRecordApply(c)

SpecClient == Init /\ [][NextClient]_vars

\* A pass of the fit-seeking loop of request c: a getTailoredResume call, or
\* a latexToPdf call with the page count.
LoopStep(c) ==
    \/ \E apiKey \in BOOLEAN, run \in [1 .. MAX_LLM_RETRIES -> InvokeOutcomes] :
          TailorGenerate(c, apiKey, run)
    \/ \E out \in RenderOutcomes : TailorRender(c, out)

\* The calls the loop awaits return: a request that waits for
\* getTailoredResume or latexToPdf goes on.
FairSpecTailor == SpecTailor /\ \A c \in AllCalls : WF_vars(LoopStep(c))

\* ================================================================ claims

\* The reserve calls made for user u so far.
ReserveCalls(u) == {c \in Calls : op[c] = "reserve" /\ user[c] = u}

\* Call c ran from invocation to return within UTC day d.
WithinDay(c, d) == pc[c] = "done" /\ today[c] = d /\ endDay[c] = d

\* Call k was invoked after call c had returned.
InvokedAfter(k, c) == c \in after[k]

GrantedCalls(u) == {c \in ReserveCalls(u) : Granted(result[c])}
DeniedCalls(u) == {c \in ReserveCalls(u) : Denied(result[c])}

\* C1: when N >= 2 checkAndReserveConversion calls have been made for a
\* non-special user without a prior record, all of them within one UTC day,
\* exactly one of them returned allowed = true and the other N - 1 returned
\* allowed = false, however their transactions interleaved.
C1_ExactlyOneGrant ==
    \A u \in Users, d \in Days :
        ( /\ ~db[u].isSpecial
          /\ Cardinality(ReserveCalls(u)) >= 2
          /\ \A c \in ReserveCalls(u) : WithinDay(c, d) )
        => /\ Cardinality(GrantedCalls(u)) = 1
           /\ Cardinality(DeniedCalls(u)) = Cardinality(ReserveCalls(u)) - 1

\* Three calls for one user, each invoked before any of them returned, all
\* within one day.
C1_Witness ==
    \E u \in Users, d \in Days :
        /\ ~db[u].isSpecial
        /\ Cardinality(ReserveCalls(u)) = 3
        /\ \A c \in ReserveCalls(u) : WithinDay(c, d) /\ after[c] = {}
        /\ Cardinality(DeniedCalls(u)) = 2

\* C2: for a non-special user at most one checkAndReserveConversion call is
\* granted per UTC calendar day, also when the clock advances between a
\* call's getTodayUTC and the commit of its transaction: no two granted calls
\* have both read the same date and committed on the same day.
C2_AtMostOneGrantPerDay ==
    \A u \in Users : \A c1, c2 \in ReserveCalls(u) :
        ( /\ ~db[u].isSpecial
          /\ c1 # c2
          /\ Granted(result[c1]) /\ Granted(result[c2]) )
        => (today[c1] # today[c2] \/ endDay[c1] # endDay[c2])

\* C3: the stored conversionsToday of a non-special user never exceeds 1
\* under checkAndReserveConversion and checkServerConversionLimit calls.
C3_CountAtMostOne ==
    \A u \in Users : ~db[u].isSpecial => ConversionsToday(db[u]) <= 1

\* A user whose record was written twice (a grant on each of two days) and
\* read by a status call.
C3_Witness ==
    \E u \in Users :
        /\ ~db[u].isSpecial
        /\ db[u].ver >= 2
        /\ db[u].conversionsToday = 1
        /\ \E c \in Calls : op[c] = "status" /\ user[c] = u /\ pc[c] = "done"

\* The record of user u before any call: isSpecial is never written.
InitialDoc(u) == IF db[u].isSpecial THEN SpecialDoc ELSE AbsentDoc

\* The fields of a record that decide a call.
Decision(doc) ==
    <<doc.exists, doc.isSpecial, doc.lastConversionDate, doc.conversionsToday>>

\* The ways to put the calls of S one after another.
Orders(S) ==
    {f \in [1 .. Cardinality(S) -> S] :
        \A i, j \in 1 .. Cardinality(S) : i # j => f[i] # f[j]}

\* For each call of S a day between its invocation and its return.
DayChoices(S) == {g \in [S -> Days] : \A c \in S : today[c] <= g[c] /\ g[c] <= endDay[c]}

\* The record after the first i calls of the order f ran one at a time, each
\* as one atomic step on the day g gives it.
RECURSIVE SeqDoc(_, _, _, _)
SeqDoc(u, f, g, i) ==
    IF i = 0 THEN InitialDoc(u)
    ELSE ReserveBody(SeqDoc(u, f, g, i - 1), g[f[i]], 0).doc

\* The order f with the days g is a one-at-a-time execution that respects
\* the order of the calls in time and gives every call its result.
Explains(u, f, g) ==
    LET n == Cardinality(ReserveCalls(u))
    IN /\ \A i, j \in 1 .. n :
            i < j => ~InvokedAfter(f[i], f[j]) /\ g[f[i]] <= g[f[j]]
       /\ \A i \in 1 .. n :
            ReserveBody(SeqDoc(u, f, g, i - 1), g[f[i]], 0).res = result[f[i]]
       /\ Decision(SeqDoc(u, f, g, n)) = Decision(db[u])

\* C4: for a single user, the results and the final record of any set of
\* concurrent checkAndReserveConversion calls are those of the same calls
\* executed one at a time in some order, each at a time between its
\* invocation and its return.
C4_Linearizable ==
    \A u \in Users :
        (\A c \in ReserveCalls(u) : pc[c] = "done")
        => \E f \in Orders(ReserveCalls(u)), g \in DayChoices(ReserveCalls(u)) :
               Explains(u, f, g)

\* C5: for a non-special user without a prior record, two successive
\* checkAndReserveConversion calls within one UTC day return
\* (allowed = true, remaining = 0) and then (allowed = false, remaining = 0),
\* and every further call of that day returns allowed = false.
C5_SingleDailySlot ==
    \A u \in Users, d \in Days : \A c1, c2 \in ReserveCalls(u) :
        ( /\ ~db[u].isSpecial
          /\ WithinDay(c1, d) /\ WithinDay(c2, d)
          /\ InvokedAfter(c2, c1)
          /\ \A k \in ReserveCalls(u) \ {c1, c2} : InvokedAfter(k, c2) )
        => /\ result[c1] = Limit(TRUE, 0, "")
           /\ result[c2] = Limit(FALSE, 0, DailyLimitReason)
           /\ \A k \in ReserveCalls(u) \ {c1, c2} : WithinDay(k, d) => Denied(result[k])

\* Three calls of one user, one after the other, within one day.
C5_Witness ==
    \E u \in Users, d \in Days : \E c1, c2, c3 \in ReserveCalls(u) :
        /\ ~db[u].isSpecial
        /\ WithinDay(c1, d) /\ WithinDay(c2, d) /\ WithinDay(c3, d)
        /\ InvokedAfter(c2, c1) /\ InvokedAfter(c3, c2)
        /\ Granted(result[c1]) /\ Denied(result[c2]) /\ Denied(result[c3])

\* The status calls made for user u so far.
StatusCalls(u) == {c \in Calls : op[c] = "status" /\ user[c] = u}

\* C6: a non-special user who reserved on UTC day d is allowed again on day
\* d + 1 by checkServerConversionLimit and by checkAndReserveConversion, and
\* that reserve stores lastConversionDate = d + 1 and conversionsToday = 1.
C6_DayRollover ==
    \A u \in Users, d \in Days : \A c1 \in ReserveCalls(u) :
        ( /\ ~db[u].isSpecial
          /\ d + 1 \in Days
          /\ WithinDay(c1, d) /\ Granted(result[c1]) )
        => /\ \A s \in StatusCalls(u) :
                ( /\ pc[s] = "done" /\ endDay[s] = d + 1
                  /\ InvokedAfter(s, c1)
                  /\ \A k \in ReserveCalls(u) \ {c1} : InvokedAfter(k, s) )
                => result[s] = Limit(TRUE, 1, "")
           /\ \A c2 \in ReserveCalls(u) \ {c1} :
                ( /\ WithinDay(c2, d + 1)
                  /\ InvokedAfter(c2, c1)
                  /\ \A k \in ReserveCalls(u) \ {c1, c2} : InvokedAfter(k, c2) )
                => /\ result[c2] = Limit(TRUE, 0, "")
                   /\ (\A k \in ReserveCalls(u) \ {c1, c2} : pc[k] # "done")
                      => /\ db[u].lastConversionDate = d + 1
                         /\ db[u].conversionsToday = 1

\* A grant on day d, then on day d + 1 a status call and after it a reserve.
C6_Witness ==
    \E u \in Users, d \in Days :
        \E c1, c2 \in ReserveCalls(u), s \in StatusCalls(u) :
            /\ ~db[u].isSpecial
            /\ WithinDay(c1, d) /\ Granted(result[c1])
            /\ pc[s] = "done" /\ endDay[s] = d + 1 /\ InvokedAfter(s, c1)
            /\ WithinDay(c2, d + 1) /\ InvokedAfter(c2, s)
            /\ Granted(result[s]) /\ Granted(result[c2])
            /\ db[u].lastConversionDate = d + 1

\* C7: for a user whose record has isSpecial = true, every
\* checkAndReserveConversion call returns allowed = true with remaining = -1
\* and the record keeps every field: it is never written.
C7_SpecialExempt ==
    \A u \in Users :
        db[u].isSpecial
        => /\ db[u] = SpecialDoc
           /\ \A c \in ReserveCalls(u) :
                pc[c] = "done" => result[c] = Limit(TRUE, -1, "")

\* Three calls for a special user, each invoked before any of them returned.
C7_Witness ==
    \E u \in Users :
        /\ db[u].isSpecial
        /\ Cardinality(ReserveCalls(u)) = 3
        /\ \A c \in ReserveCalls(u) : pc[c] = "done" /\ after[c] = {}

\* Call c returns in this step.
Returns(c) == pc[c] # "done" /\ pc'[c] = "done"

\* C8: a checkAndReserveConversion call that returns allowed = false writes
\* nothing: the stored records after the call equal those before it.
C8_DenyWritesNothing ==
    [][\A c \in Calls :
          (op[c] = "reserve" /\ Returns(c) /\ Denied(result'[c])) => db' = db]_vars

\* A call denied although it was invoked before any call had returned.
C8_Witness ==
    \E c \in Calls :
        /\ op[c] = "reserve" /\ pc[c] = "done"
        /\ Denied(result[c])
        /\ after[c] = {}

\* Call c of the status path (checkServerConversionLimit, or a request to
\* the rate-limit endpoint) takes this step.
StatusPathStep(c) == op'[c] \in {"status", "post"} /\ pc'[c] # pc[c]

\* C9: the status path never mutates quota state: no step of
\* checkServerConversionLimit and no step of the rate-limit endpoint, for
\* any action value, changes a user record.
C9_StatusNeverMutates ==
    [][\A c \in Calls : StatusPathStep(c) => db' = db]_vars

\* The endpoint answered action "record" for a user whose record had been
\* written.
C9_Witness ==
    \E c \in Calls :
        /\ op[c] = "post" /\ pc[c] = "done" /\ action[c] = "record"
        /\ user[c] \in Users
        /\ db[user[c]].ver > 0

\* C10: among all exported operations of the quota modules, only
\* checkAndReserveConversion mutates a user record.
C10_OnlyReserveMutates ==
    [][db' # db => \E c \in Calls : op[c] = "reserve" /\ Returns(c)]_vars

Writers == {"reserve", "recordServer", "record"}

\* C10 as amended: a user record is mutated only by
\* checkAndReserveConversion, recordServerConversion and recordConversion;
\* checkServerConversionLimit, checkConversionLimit and getUserLimitStatus
\* never mutate it.
C10_OnlyWritersMutate ==
    [][db' # db => \E c \in Calls : op[c] \in Writers /\ Returns(c)]_vars

\* A record written by one of the two record operations and then read by a
\* client-side read.
C10_Witness ==
    \E c1, c2 \in Calls :
        /\ op[c1] \in {"recordServer", "record"} /\ pc[c1] = "done"
        /\ db[user[c1]].ver > 0
        /\ op[c2] \in ClientReadOnly /\ pc[c2] = "done"
        /\ user[c2] = user[c1]
        /\ result[c2].remaining = 0

\* No record of u was written between the return of r and the read of s:
\* every granted call that had returned when s read had returned when r was
\* invoked, or it read the date r read, so that the record r was denied on
\* would have denied it too and its write came before.
NoWriteBetween(u, r, s) ==
    \A k \in ReserveCalls(u) \ {r} :
        (k \in after[s] /\ Granted(result[k]))
        => (k \in after[r] \/ today[k] = today[r])

\* C11: a checkServerConversionLimit call made after a
\* checkAndReserveConversion call for the same user returned allowed = false,
\* on the UTC day of the date that call decided with and with no write in
\* between, returns allowed = false and remaining = 0.
C11_StatusAfterDeny ==
    \A u \in Users : \A r \in ReserveCalls(u), s \in StatusCalls(u) :
        ( /\ pc[r] = "done" /\ Denied(result[r])
          /\ pc[s] = "done" /\ InvokedAfter(s, r)
          /\ endDay[s] = today[r]
          /\ NoWriteBetween(u, r, s) )
        => result[s] = Limit(FALSE, 0, DailyLimitReason)

\* A call denied by a grant that ran at the same time, then a status call.
C11_Witness ==
    \E u \in Users : \E r, k \in ReserveCalls(u), s \in StatusCalls(u) :
        /\ pc[r] = "done" /\ Denied(result[r])
        /\ Granted(result[k]) /\ ~InvokedAfter(r, k)
        /\ pc[s] = "done" /\ InvokedAfter(s, r)
        /\ endDay[s] = today[r]
        /\ NoWriteBetween(u, r, s)
        /\ result[s].remaining = 0

\* C12: on every record state (absent, special, same day with any count,
\* other day) and at every instant, checkServerConversionLimit returns the
\* allowed value that checkAndReserveConversion returns on that record with
\* that date, and status reports remaining = 0 exactly when reserve denies.
C12_StatusAgreesWithReserve ==
    [][\A c \in Calls :
          /\ (op[c] = "status" /\ Returns(c))
             => LET r == ReserveBody(snap[c], getTodayUTC(now), now).res
                IN /\ result'[c].allowed = r.allowed
                   /\ (result'[c].remaining = 0) <=> ~r.allowed
          /\ (op[c] = "reserve" /\ Returns(c))
             => LET s == StatusBody(snap[c], today[c])
                IN /\ result'[c].allowed = s.allowed
                   /\ (s.remaining = 0) <=> ~result'[c].allowed]_vars

\* A record of today with count 0: status answered (true, 1), the reserve
\* after it took the increment branch and answered (true, 0).
C12_Witness ==
    \E u \in Users : \E r \in ReserveCalls(u), s \in StatusCalls(u) :
        /\ pc[s] = "done" /\ result[s] = Limit(TRUE, 1, "")
        /\ pc[r] = "done" /\ result[r] = Limit(TRUE, 0, "")
        /\ InvokedAfter(r, s)
        /\ endDay[s] = today[r]
        /\ db[u].ver = 1 /\ db[u].updatedAt = None
        /\ db[u].lastConversionDate = today[r]

\* The record is one of a non-special user and its lastConversionDate is not d.
OtherDay(doc, d) == ~IsSpecial(doc) /\ LastConversionDate(doc) # d

\* C13: for a non-special user, checkAndReserveConversion and
\* checkServerConversionLimit treat a record whose lastConversionDate differs
\* from today as they treat an absent record: the result is the same and
\* reserve stores the same lastConversionDate and conversionsToday, whatever
\* the old conversionsToday.
C13_OtherDayAsAbsent ==
    [][\A c \in Calls :
          /\ (op[c] = "status" /\ Returns(c) /\ OtherDay(snap[c], getTodayUTC(now)))
             => result'[c] = StatusBody(AbsentDoc, getTodayUTC(now))
          /\ (op[c] = "reserve" /\ Returns(c) /\ OtherDay(snap[c], today[c]))
             => LET fresh == ReserveBody(AbsentDoc, today[c], bodyTime[c])
                    stored == db'[user[c]]
                IN /\ result'[c] = fresh.res
                   /\ stored.lastConversionDate = fresh.doc.lastConversionDate
                   /\ stored.conversionsToday = fresh.doc.conversionsToday]_vars

\* A record of another day with the highest count: a reserve call was granted
\* on it while a second call still holds the record as it was.
C13_Witness ==
    \E u \in Users : \E r, k \in ReserveCalls(u) :
        /\ pc[r] = "done" /\ result[r] = Limit(TRUE, 0, "")
        /\ db[u].ver = 1 /\ db[u].conversionsToday = 1
        /\ db[u].lastConversionDate = today[r]
        /\ pc[k] = "read" /\ snap[k].ver = 0
        /\ snap[k].exists /\ OtherDay(snap[k], today[r])
        /\ snap[k].lastConversionDate # None
        /\ snap[k].conversionsToday = MaxCount

\* The requests made to the tailor endpoint, and those made for user u.
Requests == {c \in Calls : op[c] = "tailor"}
TailorCalls(u) == {c \in Requests : user[c] = u}

\* checkAndReserveConversion returned to request c, and ran within UTC day d.
ReservedWithinDay(c, d) ==
    tailor[c].limitCheck # NoResult /\ today[c] = d /\ endDay[c] = d

\* C14: once a request to the tailor endpoint has been granted a reservation,
\* no later outcome of that request gives the slot back: the record still
\* holds the day's count of 1, and a following reservation for the same
\* non-special user on the same UTC day is denied.
C14_NoRefund ==
    \A u \in Users, d \in Days : \A a \in TailorCalls(u) :
        ( /\ ~db[u].isSpecial
          /\ pc[a] = "done"
          /\ Granted(tailor[a].limitCheck) /\ ReservedWithinDay(a, d) )
        => /\ (\A k \in TailorCalls(u) \ {a} : ~Granted(tailor[k].limitCheck))
              => /\ db[u].lastConversionDate = d
                 /\ db[u].conversionsToday = 1
           /\ \A b \in TailorCalls(u) \ {a} :
                ( /\ InvokedAfter(b, a) /\ ReservedWithinDay(b, d)
                  /\ \A k \in TailorCalls(u) \ {a, b} : InvokedAfter(k, b) )
                => Denied(tailor[b].limitCheck)

\* A request whose second pass ran out of retries, answered 503, and after
\* it a request of the same user that was denied.
C14_Witness ==
    \E u \in Users : \E a, b \in TailorCalls(u) :
        /\ pc[a] = "done" /\ Granted(tailor[a].limitCheck)
        /\ tailor[a].generated = 2 /\ result[a].status = 503
        /\ InvokedAfter(b, a)
        /\ today[b] = today[a] /\ endDay[b] = endDay[a]
        /\ result[b].status = 429

\* C15: a request makes no getTailoredResume and no latexToPdf call unless
\* checkAndReserveConversion returned allowed = true to it before; a request
\* that was denied is answered 429 with the reason of the denial and has made
\* no such call.
C15_ReserveBeforeWork ==
    \A c \in Requests :
        /\ ( \/ tailor[c].generated > 0 \/ tailor[c].rendered > 0
             \/ pc[c] \in {"generate", "render"} )
           => Granted(tailor[c].limitCheck)
        /\ Denied(tailor[c].limitCheck)
           => /\ pc[c] = "done"
              /\ result[c] = TailorResponse(429, <<tailor[c].limitCheck.reason>>, None, None)
              /\ tailor[c].generated = 0 /\ tailor[c].rendered = 0

\* A request denied while the request that holds the slot is rendering.
C15_Witness ==
    \E u \in Users : \E a, b \in TailorCalls(u) :
        /\ pc[a] = "render" /\ tailor[a].generated = 1
        /\ pc[b] = "done" /\ Denied(tailor[b].limitCheck)
        /\ result[b].error = <<DailyLimitReason>>

\* C16: the enforcement path never fails open: when getAdminFirestore or the
\* transaction of checkAndReserveConversion fails, the call yields the error
\* and no result, and the request makes no getTailoredResume or latexToPdf
\* call and is answered with an error that carries no document.
C16_NeverFailsOpen ==
    \A c \in Requests :
        /\ env # "ok" => tailor[c].limitCheck = NoResult
        /\ tailor[c].error.source = "storage"
           => /\ tailor[c].limitCheck = NoResult
              /\ tailor[c].generated = 0 /\ tailor[c].rendered = 0
              /\ pc[c] = "done"
              /\ result[c].status >= 500
              /\ result[c].tailoredResumeText = None
              /\ result[c].tailoredResumePdf = None

\* The transaction of a request failed after it had read the record of a
\* user whose slot was free.
C16_Witness ==
    \E c \in Requests :
        /\ env = "ok"
        /\ tailor[c].error = ErrUnavailable
        /\ pc[c] = "done"
        /\ db[user[c]] = AbsentDoc

\* C17: every storage or configuration failure raised by
\* checkAndReserveConversion is answered 500 by the tailor endpoint, never
\* 429 and never 503, whatever the text of the error message.
C17_StorageFailureIs500 ==
    \A c \in Requests :
        (pc[c] = "done" /\ tailor[c].error.source = "storage")
        => result[c].status = 500

\* The error is a rate-limit error of the generation service that
\* getTailoredResume let through: its retries are used up.
RetriesExhausted(e) == e.source = "model" /\ isRateLimitError(e)

\* C18: the tailor endpoint answers 503 with the service-busy message when a
\* getTailoredResume call has used up its retries on rate-limit errors of
\* the provider, and every other error is answered 500.
C18_BusyOnlyFromGenerate ==
    \A c \in Requests :
        (pc[c] = "done" /\ tailor[c].error # NoError)
        => IF RetriesExhausted(tailor[c].error)
           THEN result[c] = TailorResponse(503, <<BusyMessage>>, None, None)
           ELSE result[c].status = 500

\* A "check" request to the rate-limit endpoint that was answered.
Checks == {c \in Calls : op[c] = "post" /\ action[c] = "check" /\ pc[c] = "done"}

FailOpen == Http(200, "limit", 1, FALSE)

\* A process whose storage access fails grants nothing at the tailor endpoint.
TailorGrantsNothing ==
    \A c \in Requests :
        (env # "ok" /\ user[c] # NoUser)
        => /\ tailor[c].limitCheck = NoResult
           /\ pc[c] = "done" => /\ result[c].status = 500
                                /\ result[c].tailoredResumePdf = None

\* C19: when the storage access of the status endpoint fails with a
\* credentials or configuration error, the endpoint fails open (200,
\* remaining = 1, isSpecial = false), while the tailor endpoint grants
\* nothing under the same condition.
C19_ConfigFailsOpen ==
    /\ \A c \in Checks : env # "ok" => result[c] = FailOpen
    /\ TailorGrantsNothing

\* C19 as amended: the status endpoint fails open when the error message
\* names credentials or FIREBASE_SERVICE_ACCOUNT (no configuration at all, or
\* no default credentials); a service account that does not parse is answered
\* 500; the tailor endpoint grants nothing under any of these.
C19_CredentialsFailOpen ==
    /\ \A c \in Checks :
          /\ env \in {"missing", "noCredentials"} => result[c] = FailOpen
          /\ env = "invalidJson"
             => result[c] = Http(500, "Internal server error.", None, FALSE)
    /\ TailorGrantsNothing

\* Without configuration the status endpoint answered 200 with one
\* conversion remaining and the tailor endpoint answered 500.
C19_Witness ==
    \E c1 \in Checks, c2 \in Requests :
        /\ env = "missing"
        /\ result[c1] = FailOpen
        /\ user[c2] = user[c1]
        /\ pc[c2] = "done" /\ result[c2].status = 500

\* The counters of request c are those of a loop of at most
\* MAX_PAGE_ITERATIONS passes, and a request that was answered after every
\* count was above one page made exactly that many passes.
LoopBounded(c) ==
    /\ tailor[c].generated <= MAX_PAGE_ITERATIONS
    /\ tailor[c].rendered <= tailor[c].generated
    /\ pc[c] = "generate" => /\ tailor[c].rendered = tailor[c].generated
                             /\ tailor[c].generated < MAX_PAGE_ITERATIONS
    /\ pc[c] = "render" => tailor[c].generated = tailor[c].rendered + 1
    /\ ( /\ pc[c] = "done" /\ tailor[c].error = NoError
         /\ tailor[c].rendered > 0
         /\ tailor[c].overflows = tailor[c].rendered )
       => /\ tailor[c].generated = MAX_PAGE_ITERATIONS
          /\ tailor[c].rendered = MAX_PAGE_ITERATIONS
          /\ result[c].status = 200

\* C20: if every render reports more than one page, the fit-seeking loop
\* calls getTailoredResume exactly 3 times and latexToPdf exactly 3 times and
\* then returns; and whenever the calls it awaits return, the loop ends
\* after at most MAX_PAGE_ITERATIONS = 3 passes.
C20_FitLoopTerminates ==
    /\ [](\A c \in Requests : LoopBounded(c))
    /\ \A c \in AllCalls : (pc[c] \in {"generate", "render"}) ~> (pc[c] = "done")

\* A request answered with the document of the third pass, still above one
\* page.
C20_Witness ==
    \E c \in Requests :
        /\ pc[c] = "done" /\ result[c].status = 200
        /\ tailor[c].pageCount > 1
        /\ tailor[c].overflows = 3
        /\ tailor[c].generated = 3 /\ tailor[c].rendered = 3

\* The events of all getTailoredResume calls of a request, in order.
RECURSIVE Events(_)
Events(traces) ==
    IF Len(traces) = 0 THEN <<>> ELSE Head(traces) \o Events(Tail(traces))

IsInvoke(ev) == ev.kind = "invoke"
IsSleep(ev) == ev.kind = "sleep"

\* The model invocations and the sleeps among the events evs.
Invocations(evs) == SelectSeq(evs, IsInvoke)
Sleeps(evs) == SelectSeq(evs, IsSleep)

\* C21: the fit-seeking loop stops at the first pass whose page count is at
\* most 1: when that is pass k (0-based) the request is answered with the
\* document after exactly k + 1 getTailoredResume and k + 1 latexToPdf calls,
\* the k passes before it having counted more than one page; a first count
\* of one page means one call of each.
C21_StopsAtFirstFit ==
    \A c \in Requests :
        LET req == tailor[c]
        IN (req.rendered > 0 /\ req.pageCount # None /\ req.pageCount <= 1)
           => /\ pc[c] = "done" /\ req.error = NoError
              /\ result[c].status = 200
              /\ req.generated = req.overflows + 1
              /\ req.rendered = req.overflows + 1
              /\ Len(req.trace) = req.overflows + 1

\* The second pass counted one page and the request was answered after two
\* calls of each.
C21_Witness ==
    \E c \in Requests :
        /\ pc[c] = "done" /\ result[c].status = 200
        /\ tailor[c].pageCount = 1
        /\ tailor[c].overflows = 1
        /\ tailor[c].generated = 2 /\ tailor[c].rendered = 2

\* C22: when all 3 passes count more than one page, the response is a
\* success whose LaTeX and PDF are those of the third getTailoredResume call.
C22_LastAttemptReturned ==
    \A c \in Requests :
        ( /\ pc[c] = "done" /\ tailor[c].error = NoError
          /\ tailor[c].overflows = MAX_PAGE_ITERATIONS )
        => result[c] = TailorResponse(200, <<>>, MAX_PAGE_ITERATIONS, MAX_PAGE_ITERATIONS)

\* Three passes, each above one page and each after a retried invocation.
C22_Witness ==
    \E c \in Requests :
        /\ pc[c] = "done"
        /\ tailor[c].overflows = 3
        /\ result[c].tailoredResumeText = 3 /\ result[c].tailoredResumePdf = 3
        /\ Len(Events(tailor[c].trace)) > 3

\* C23: getTailoredResume is called without a hint in the first pass, with
\* the moderate hint in the second and with the aggressive hint in the
\* third; the two hints differ, and a hint is passed only after the count
\* of the pass before was above one page.
C23_EscalatingHints ==
    /\ ModerateHint # AggressiveHint
    /\ NoHint \notin {ModerateHint, AggressiveHint}
    /\ \A c \in Requests :
          LET hints == tailor[c].hints
          IN /\ Len(hints) = tailor[c].generated
             /\ Len(hints) <= 3
             /\ Len(hints) >= 1 => hints[1] = NoHint
             /\ Len(hints) >= 2 => hints[2] = ModerateHint
             /\ Len(hints) >= 3 => hints[3] = AggressiveHint
             /\ Len(hints) >= 2 => tailor[c].overflows >= Len(hints) - 1

\* The third call has been made.
C23_Witness ==
    \E c \in Requests :
        /\ tailor[c].hints = <<NoHint, ModerateHint, AggressiveHint>>
        /\ tailor[c].overflows = 2
        /\ pc[c] = "invoke"

\* C24: within one getTailoredResume call, if model.invoke throws a
\* rate-limit error on the first 2 invocations and returns on the 3rd, the
\* call sleeps exactly twice, 2000 ms and then 4000 ms, each sleep between
\* a failed invocation and the next, and returns the response.
C24_TwoBackoffsThenResult ==
    \A c \in Requests : \A i \in 1 .. Len(tailor[c].trace) :
        LET outcomes == Invocations(tailor[c].trace[i])
        IN ( /\ Len(outcomes) = 3
             /\ isRateLimitError(outcomes[1].error)
             /\ isRateLimitError(outcomes[2].error)
             /\ outcomes[3].error = NoError )
           => /\ tailor[c].trace[i] =
                    << outcomes[1], Slept(2000), outcomes[2], Slept(4000), outcomes[3] >>
              /\ tailor[c].latexCode >= i
              /\ i = Len(tailor[c].trace) => tailor[c].error.source # "model"

\* The first call of a request returned after two sleeps and is being
\* rendered.
C24_Witness ==
    \E c \in Requests :
        /\ pc[c] = "render"
        /\ tailor[c].trace = << << Invoked(ErrModelBusy), Slept(2000), Invoked(ErrModelBusy),
                                  Slept(4000), Invoked(NoError) >> >>
        /\ tailor[c].latexCode = 1

\* C25: an error of model.invoke that isRateLimitError does not classify is
\* thrown on from getTailoredResume on the attempt where it occurs, whichever
\* attempt that is: no sleep and no model invocation follows it.
C25_OtherErrorsNotRetried ==
    \A c \in Requests : \A i \in 1 .. Len(tailor[c].trace) :
        LET tr == tailor[c].trace[i]
        IN \A j \in 1 .. Len(tr) :
              ( /\ tr[j].kind = "invoke" /\ tr[j].error # NoError
                /\ ~isRateLimitError(tr[j].error) )
              => /\ j = Len(tr) /\ i = Len(tailor[c].trace)
                 /\ pc[c] = "done"
                 /\ tailor[c].error = tr[j].error

\* The error occurred on the second attempt, after one sleep.
C25_Witness ==
    \E c \in Requests :
        /\ tailor[c].trace = << << Invoked(ErrModelBusy), Slept(2000),
                                  Invoked(ErrModelFailed) >> >>
        /\ tailor[c].error = ErrModelFailed

\* C26: if model.invoke throws rate-limit errors on all attempts,
\* getTailoredResume invokes the model exactly 3 times, sleeps exactly twice,
\* never after the last attempt, and then throws the third error.
C26_ExhaustedAfterThree ==
    \A c \in Requests :
        /\ \A i \in 1 .. Len(tailor[c].trace) :
              /\ Len(Invocations(tailor[c].trace[i])) <= MAX_LLM_RETRIES
              /\ Len(Sleeps(tailor[c].trace[i])) <= MAX_LLM_RETRIES - 1
        /\ RetriesExhausted(tailor[c].error)
           => LET tr == tailor[c].trace[Len(tailor[c].trace)]
              IN /\ Len(tr) = 5
                 /\ \A j \in {1, 3, 5} : /\ tr[j].kind = "invoke"
                                         /\ isRateLimitError(tr[j].error)
                 /\ \A j \in {2, 4} : tr[j].kind = "sleep"
                 /\ tailor[c].error = tr[5].error
                 /\ pc[c] = "done"

\* The second call of a request ran out of attempts.
C26_Witness ==
    \E c \in Requests :
        /\ Len(tailor[c].trace) = 2
        /\ tailor[c].trace[2] = << Invoked(ErrModelBusy), Slept(2000), Invoked(ErrModelBusy),
                                   Slept(4000), Invoked(ErrModelBusy) >>
        /\ tailor[c].error = ErrModelBusy
        /\ result[c].status = 503

\* C27: the attempt counter belongs to one getTailoredResume call and starts
\* at zero in every pass of the page-fit loop: a request makes at most 3
\* model invocations and 2 sleeps in a pass and at most 9 model invocations
\* and 6 sleeps in all.
C27_RetryBudgetPerPass ==
    \A c \in Requests :
        LET req == tailor[c]
            current == req.trace[Len(req.trace)]
        IN /\ Len(req.trace) <= MAX_PAGE_ITERATIONS
           /\ \A i \in 1 .. Len(req.trace) :
                 /\ Len(Invocations(req.trace[i])) <= 3
                 /\ Len(Sleeps(req.trace[i])) <= 2
           /\ Len(Invocations(Events(req.trace))) <= 9
           /\ Len(Sleeps(Events(req.trace))) <= 6
           /\ pc[c] = "invoke"
              => /\ req.attempt = Len(Invocations(current))
                 /\ req.attempt = Len(Sleeps(current))
           /\ pc[c] = "sleep"
              => /\ req.attempt + 1 = Len(Invocations(current))
                 /\ req.attempt = Len(Sleeps(current))

\* Every pass used all three attempts.
C27_Witness ==
    \E c \in Requests :
        /\ Len(Invocations(Events(tailor[c].trace))) = 9
        /\ Len(Sleeps(Events(tailor[c].trace))) = 6
        /\ pc[c] = "done" /\ result[c].status = 200

\* C28: an error thrown by getTailoredResume, latexToPdf or getPdfPageCount,
\* in any pass, ends the request at once: the response is an error without
\* a document, also when a pass before had rendered one, and the request
\* makes no call after it.
C28_ErrorAborts ==
    /\ [](\A c \in Requests :
            tailor[c].error # NoError
            => /\ pc[c] = "done"
               /\ result[c].status \in {500, 503}
               /\ result[c].tailoredResumeText = None
               /\ result[c].tailoredResumePdf = None)
    /\ [][\A c \in Requests :
            tailor[c].error # NoError
            => /\ tailor'[c] = tailor[c]
               /\ result'[c] = result[c]
               /\ pc'[c] = pc[c]]_vars

\* latexToPdf failed in the second pass, after the first pass had rendered
\* a document.
C28_Witness ==
    \E c \in Requests :
        /\ tailor[c].error = ErrRender
        /\ tailor[c].rendered = 2
        /\ tailor[c].pdfBuffer = 1
        /\ result[c].tailoredResumePdf = None

\* The form of a request lacks the job description, or the resume text.
Incomplete(jobDescription, resume) ==
    ~jobDescription \/ resume \in {"none", "blankFile"}

\* C29: a request without job description, or without resume text, is
\* answered 400 and a request whose reservation was denied is answered 429,
\* in both cases before any getTailoredResume or latexToPdf call is made.
C29_FailFast ==
    /\ [](\A c \in Requests :
            /\ Denied(tailor[c].limitCheck)
               => pc[c] = "done" /\ result[c].status = 429
            /\ (pc[c] = "done" /\ result[c].status \in {400, 429})
               => /\ tailor[c].generated = 0 /\ tailor[c].rendered = 0
                  /\ tailor[c].trace = <<>>)
    /\ [][\A c \in Requests, jobDescription \in BOOLEAN, resume \in ResumeInputs :
            ( /\ Incomplete(jobDescription, resume)
              /\ TailorValidate(c, jobDescription, resume) )
            => /\ pc'[c] = "done"
               /\ result'[c].status = 400
               /\ tailor'[c].generated = 0 /\ tailor'[c].rendered = 0]_vars

\* A granted request whose uploaded file holds no text was answered 400.
C29_Witness ==
    \E c \in Requests :
        /\ Granted(tailor[c].limitCheck)
        /\ pc[c] = "done"
        /\ result[c].status = 400
        /\ result[c].error =
              <<"Resume text is empty. Please provide a valid resume file or paste resume content.">>
        /\ tailor[c].generated = 0

\* C30: on the path of checkConversionLimit followed by recordConversion a
\* check answers from the document it read, whatever has been written since,
\* and writes nothing itself; so two interleaved requests of a fresh
\* non-special user are both allowed on the same UTC day.
C30_StaleCheckAllowed ==
    [][\A c \in Calls :
          (pc[c] = "read" /\ op[c] = "check" /\ pc'[c] = "done")
          => /\ db' = db
             /\ result'[c].allowed =
                   ( \/ IsSpecial(snap[c])
                     \/ ~( /\ LastConversionDate(snap[c]) = getTodayUTC(now)
                           /\ ConversionsToday(snap[c]) >= 1 ) )]_vars

\* Two checks of a user without a record were both allowed on day 0, and
\* a recordConversion has written the day's conversion.
C30_Witness ==
    \E u \in Users : \E a, b, r \in Calls :
        /\ a # b
        /\ user[a] = u /\ user[b] = u /\ user[r] = u
        /\ op[a] = "check" /\ op[b] = "check" /\ op[r] = "record"
        /\ pc[a] = "done" /\ pc[b] = "done" /\ pc[r] = "done"
        /\ Granted(result[a]) /\ Granted(result[b])
        /\ ~db[u].isSpecial
        /\ db[u].lastConversionDate = 0 /\ db[u].conversionsToday = 1
        /\ getTodayUTC(now) = 0

\* C31: the tailor endpoint reserves before it examines the form: a request
\* of a non-special user that is answered 400 (no job description, no resume,
\* empty resume text) was granted the slot and has used it, so the record
\* holds the day's count and the next request of that UTC day is answered
\* 429.
C31_InvalidFormUsesSlot ==
    \A u \in Users, d \in Days : \A a \in TailorCalls(u) :
        (~db[u].isSpecial /\ pc[a] = "done" /\ result[a].status = 400)
        => /\ Granted(tailor[a].limitCheck)
           /\ tailor[a].generated = 0 /\ tailor[a].rendered = 0
           /\ ReservedWithinDay(a, d)
              => /\ (\A k \in TailorCalls(u) \ {a} : ~Granted(tailor[k].limitCheck))
                    => /\ db[u].lastConversionDate = d
                       /\ db[u].conversionsToday = 1
                 /\ \A b \in TailorCalls(u) \ {a} :
                      ( /\ InvokedAfter(b, a) /\ ReservedWithinDay(b, d)
                        /\ \A k \in TailorCalls(u) \ {a, b} : InvokedAfter(k, b) )
                      => /\ Denied(tailor[b].limitCheck)
                         /\ result[b].status = 429

\* A request without job description was answered 400 and the request that
\* followed it on the same day 429.
C31_Witness ==
    \E u \in Users : \E a, b \in TailorCalls(u) :
        /\ result[a] = TailorResponse(400, <<"Job description is required.">>, None, None)
        /\ pc[a] = "done" /\ pc[b] = "done"
        /\ InvokedAfter(b, a)
        /\ today[b] = today[a] /\ endDay[b] = endDay[a] /\ today[a] = endDay[a]
        /\ result[b] = TailorResponse(429, <<DailyLimitReason>>, None, None)

\* The requests to the tailor endpoint whose form has no userId.
Anonymous == {c \in Requests : user[c] = NoUser}

\* C32: a request to the tailor endpoint with an empty or missing userId is
\* answered 401 without a call of checkAndReserveConversion: no date and no
\* record is read, no record is created or modified, and no
\* getTailoredResume or latexToPdf call is made.
C32_AnonymousTouchesNothing ==
    /\ [](\A c \in Anonymous :
            /\ pc[c] = "done"
            /\ result[c] = TailorResponse(401, <<"User authentication required.">>, None, None)
            /\ tailor[c] = NoRequest
            /\ today[c] = None /\ snap[c] = AbsentDoc /\ bodyTime[c] = None)
    /\ [][(\E c \in Calls : op[c] # "tailor" /\ op'[c] = "tailor" /\ user'[c] = NoUser)
          => db' = db]_vars

\* A request without userId has been answered while the record of the only
\* user shows a conversion of the day.
C32_Witness ==
    \E c \in Anonymous :
        /\ result[c].status = 401
        /\ \E u \in Users : db[u].lastConversionDate = 0 /\ db[u].conversionsToday = 1

\* C33: the stored lastConversionDate of a user never moves backwards: every
\* committed write of checkAndReserveConversion stores a date greater than
\* or equal to the one it replaces.
C33_DateNeverBackwards ==
    [][\A u \in Users :
          (db[u].exists /\ db[u].lastConversionDate # None)
          => db'[u].lastConversionDate >= db[u].lastConversionDate]_vars

\* C34: starting from an absent record or one that holds only isSpecial, and
\* with checkAndReserveConversion as the only writer, a record that has a
\* lastConversionDate has conversionsToday = 1, so no execution of the
\* transaction body finds lastConversionDate = today with conversionsToday
\* below 1 (the increment branch of lines 128-130 is never taken).
C34_CountIsOne ==
    /\ \A u \in Users :
          db[u].lastConversionDate # None => ConversionsToday(db[u]) = 1
    /\ \A c \in Calls :
          (op[c] = "reserve" /\ pc[c] = "read" /\ ~IsSpecial(snap[c]))
          => ~(LastConversionDate(snap[c]) = today[c] /\ ConversionsToday(snap[c]) < 1)

\* A call has read a record that carries its own date: the same-day branch
\* is the one being decided.
C34_Witness ==
    \E c \in Calls :
        /\ op[c] = "reserve" /\ pc[c] = "read"
        /\ snap[c].exists /\ ~IsSpecial(snap[c])
        /\ LastConversionDate(snap[c]) = today[c]

\* C35: when the transaction body of checkAndReserveConversion is executed
\* again after a conflicting commit, the call commits one write set and
\* returns the result of the execution that committed: the result and the
\* write of a returning call are those the body computes from the record as
\* it is at the commit, a record changes only in the step in which a call
\* returns, and a call that has returned writes nothing further.
C35_CommittedExecutionDecides ==
    [][/\ \A c \in Calls :
            (op[c] = "reserve" /\ pc[c] = "read" /\ pc'[c] = "done")
            => LET b == ReserveBody(db[user[c]], today[c], bodyTime[c])
               IN /\ result'[c] = b.res
                  /\ db'[user[c]] = b.doc
       /\ db' # db => \E c \in Calls :
                         /\ pc[c] = "read" /\ pc'[c] = "done"
                         /\ \A u \in Users \ {user[c]} : db'[u] = db[u]
       /\ \A c \in Calls : pc[c] = "done" => pc'[c] = "done" /\ result'[c] = result[c]
      ]_vars

\* A call holds a read that says the slot is free while another call of the
\* same date has committed the slot since: the body has to run again.
C35_Witness ==
    \E c \in Calls, k \in Calls :
        /\ op[c] = "reserve" /\ pc[c] = "read" /\ Conflict(c)
        /\ Granted(ReserveBody(snap[c], today[c], bodyTime[c]).res)
        /\ op[k] = "reserve" /\ pc[k] = "done" /\ Granted(result[k])
        /\ user[k] = user[c] /\ today[k] = today[c]

\* C36: in every success response of the tailor endpoint the PDF is the
\* render of the LaTeX returned with it: both come from the same pass, the
\* last one made.
C36_PdfOfReturnedLatex ==
    \A c \in Requests :
        (pc[c] = "done" /\ result[c].status = 200)
        => /\ result[c].tailoredResumePdf = result[c].tailoredResumeText
           /\ result[c].tailoredResumeText = tailor[c].generated
           /\ tailor[c].rendered = tailor[c].generated

\* A success after a second pass: the first document counted too many pages.
C36_Witness ==
    \E c \in Requests :
        /\ pc[c] = "done" /\ result[c].status = 200
        /\ tailor[c].overflows = 1
        /\ result[c].tailoredResumeText = 2 /\ result[c].tailoredResumePdf = 2

\* C37: a rendered document whose page count is reported as 0, or for which
\* the parser reports no page count (getPdfPageCount gives 0), fits: the
\* pass that counted it answers with it as a success, and no further
\* getTailoredResume or latexToPdf call is made.
C37_ZeroPagesFits ==
    /\ [][\A c \in Calls : \A out \in RenderOutcomes :
            ( /\ out.error = NoError /\ out.numpages \in {0, None}
              /\ TailorRender(c, out) )
            => /\ pc'[c] = "done"
               /\ tailor'[c].pageCount = 0
               /\ result'[c] = TailorResponse(200, <<>>, tailor[c].generated,
                                              tailor[c].generated)]_vars
    /\ [](\A c \in Requests :
            tailor[c].pageCount = 0
            => /\ pc[c] = "done" /\ result[c].status = 200
               /\ tailor[c].rendered = tailor[c].generated
               /\ tailor[c].overflows = tailor[c].rendered - 1)

\* The second document of a request was counted at 0 pages and returned.
C37_Witness ==
    \E c \in Requests :
        /\ pc[c] = "done" /\ result[c].status = 200
        /\ tailor[c].pageCount = 0
        /\ tailor[c].generated = 2 /\ tailor[c].rendered = 2

\* The requests to the rate-limit endpoint with action "check" and a userId.
CheckRequests ==
    {c \in Calls : op[c] = "post" /\ action[c] = "check" /\ user[c] # NoUser}

\* C38: with storage available, the answer of the rate-limit endpoint to
\* action "check" has isSpecial = true exactly when the record of the user
\* has isSpecial = true, remaining = -1 for such a user, and remaining 0 or 1
\* for any other user, whatever date and count the record holds.
C38_CheckReportsRecord ==
    \A c \in CheckRequests :
        pc[c] = "done"
        => LET doc == db[user[c]]
           IN /\ result[c].status = 200
              /\ result[c].isSpecial <=> IsSpecial(doc)
              /\ IsSpecial(doc) => result[c].remaining = -1
              /\ ~IsSpecial(doc) => result[c].remaining \in {0, 1}

\* A user who is not special and whose record holds the highest count under
\* today's date has been told twice that nothing remains.
C38_Witness ==
    \E c \in CheckRequests, k \in CheckRequests :
        /\ pc[c] = "done" /\ pc[k] = "done" /\ c # k
        /\ LET doc == db[user[c]]
           IN /\ doc.exists /\ ~doc.isSpecial /\ doc.conversionsToday = MaxCount
              /\ doc.lastConversionDate = getTodayUTC(now)
              /\ result[c].remaining = 0 /\ ~result[c].isSpecial
              /\ result[k] = result[c]

\* C39: checkAndReserveConversion(u) reads and writes only the record of
\* u.  What a call reads is the record of its user; what it returns and
\* writes is what the transaction body computes from that record; the
\* records of all other users are as they were after each of its steps; and
\* a commit to the record of another user neither puts the call in conflict
\* nor changes what it has read.
C39_OwnRecordOnly ==
    [][\A c \in Calls :
          /\ (pc[c] = "begun" /\ pc'[c] = "read") => snap'[c] = db[user[c]]
          /\ (pc[c] = "read" /\ pc'[c] = "done")
             => LET b == ReserveBody(db[user[c]], today[c], bodyTime[c])
                IN /\ result'[c] = b.res
                   /\ db'[user[c]] = b.doc
                   /\ \A u \in FrameUsers \ {user[c]} : db'[u] = db[u]
          /\ (pc[c] = "read" /\ \E k \in Calls \ {c} :
                                  user[k] # user[c] /\ pc[k] = "read" /\ pc'[k] = "done")
             => /\ pc'[c] = "read" /\ snap'[c] = snap[c]
                /\ db'[user[c]] = db[user[c]]
                /\ Conflict(c)' <=> Conflict(c)
      ]_vars

\* Two users without exemption were each granted the slot of the same date
\* by calls that returned on the same day, the transaction body of one
\* running at a later instant than that of the other.
C39_Witness ==
    \E c \in Calls, k \in Calls :
        /\ user[c] # user[k] /\ user[c] # NoUser /\ user[k] # NoUser
        /\ pc[c] = "done" /\ pc[k] = "done"
        /\ Granted(result[c]) /\ Granted(result[k])
        /\ today[c] = today[k]
        /\ db[user[c]].conversionsToday = 1 /\ db[user[k]].conversionsToday = 1
        /\ db[user[c]].lastConversion < db[user[k]].lastConversion
        /\ endDay[c] = endDay[k]

\* C40: whenever handleTailorClick has finished (the limit fetch or the
\* request to the tailor endpoint succeeded, was rejected by the server, or
\* threw), checkingLimit and isTailoring are both false again.
C40_FlagsResetWhenFinished ==
    page.handler = "idle" => ~page.checkingLimit /\ ~page.isTailoring

====
